---- MODULE Spec2Model ----
(***************************************************************************)
(* Constraint generation of the MODADD, MODSUB and OR components of        *)
(* claasp (src/claasp/components).  A component is built, one of its       *)
(* encoders is called and returns an artifact (variable ids, constraints), *)
(* and a solver enumerates the assignments that satisfy the artifact for   *)
(* the values carried by the wired input bits.  The encoders that account  *)
(* for probabilities also write to the whole-cipher model they are given,  *)
(* and the caller collects the artifacts of the components of a cipher.    *)
(***************************************************************************)
EXTENDS Integers, Sequences, FiniteSets, TLC

VARIABLES comp, inputs, backend, art, solutions, pc, model, history, sign

vars == <<comp, inputs, backend, art, solutions, pc, model, history, sign>>

(***************************************************************************)
(* Bounds of the model.                                                    *)
(***************************************************************************)
MaxK == 5
MaxW == 4
MaxBits == 9
\* the number of components of a cipher that are encoded one after the other
MaxComponents == 2

(***************************************************************************)
(* Python list helpers.                                                    *)
(***************************************************************************)
Min(a, b) == IF a < b THEN a ELSE b
Max(a, b) == IF a > b THEN a ELSE b

\* s[a:b] with 0-based a, b (clipped as Python clips a slice)
PySlice(s, a, b) ==
    LET lo == Max(a, 0)
        hi == Min(b, Len(s))
    IN  IF lo >= hi THEN <<>> ELSE SubSeq(s, lo + 1, hi)

\* s[:-1]
ButLast(s) == PySlice(s, 0, Len(s) - 1)
\* s[i::step] with 0-based i
Stride(s, i, step) ==
    [n \in 1 .. (IF Len(s) > i THEN ((Len(s) - i - 1) \div step) + 1 ELSE 0)
        |-> s[i + (n - 1) * step + 1]]

RECURSIVE Flat(_)
\* [x for xs in xss for x in xs]
Flat(xss) == IF xss = <<>> THEN <<>> ELSE Head(xss) \o Flat(Tail(xss))

\* the sum and the product of a list of numbers
RECURSIVE SumSeq(_)
SumSeq(s) == IF s = <<>> THEN 0 ELSE Head(s) + SumSeq(Tail(s))

RECURSIVE ProdSeq(_)
ProdSeq(s) == IF s = <<>> THEN 1 ELSE Head(s) * ProdSeq(Tail(s))

\* f'{i:03}'
Pad3(i) ==
    IF i < 10 THEN "00" \o ToString(i)
    ELSE IF i < 100 THEN "0" \o ToString(i) ELSE ToString(i)

\* The outcome of a call: the returned list, or the exception raised.
Ok(v) == [raised |-> "none", val |-> v]
Err(e) == [raised |-> e, val |-> <<>>]
\* constraints.extend(r2) after r1 was built: the first exception wins
Extend(r1, r2) ==
    IF r1.raised # "none" THEN r1
    ELSE IF r2.raised # "none" THEN r2
    ELSE Ok(r1.val \o r2.val)

RECURSIVE ExtendAll(_)
ExtendAll(rs) == IF rs = <<>> THEN Ok(<<>>) ELSE Extend(Head(rs), ExtendAll(Tail(rs)))

(***************************************************************************)
(* Component: identity, wiring, output width and operand count.            *)
(***************************************************************************)
\* Component.__init__: id is '<type>_<round>_<index>'
ComponentId(kind, round, index) ==
    kind \o "_" \o ToString(round) \o "_" \o ToString(index)

\* The wiring the cipher builder supplies: operand i comes from source 'in<i>',
\* bits 0 .. w-1.
Wiring(k, w) ==
    [input_id_links |-> [i \in 1 .. k |-> "in" \o ToString(i - 1)],
     input_bit_positions |-> [i \in 1 .. k |-> [j \in 1 .. w |-> j - 1]]]

NewComponent(kind, k, w) ==
    [kind |-> kind, id |-> ComponentId(kind, 0, 0),
     description |-> <<kind, k>>, output_bit_size |-> w,
     input_id_links |-> Wiring(k, w).input_id_links,
     input_bit_positions |-> Wiring(k, w).input_bit_positions]

\* a component whose description says k operands of w bits but which is wired
\* to n bits of one upstream component
MiswiredComponent(kind, k, w, n) ==
    [NewComponent(kind, k, w)
        EXCEPT !.input_id_links = <<"in0">>,
               !.input_bit_positions = << [j \in 1 .. n |-> j - 1] >>]

\* self.description[1]: the operand count
NumOperands(c) == c.description[2]

\* Component.input_bit_size: the number of wired input bits
input_bit_size(c) ==
    Len(Flat(c.input_bit_positions))

\* Component._generate_input_ids: '<link>_<position>' for every wired bit
generate_input_ids(c) ==
    Flat([i \in 1 .. Len(c.input_id_links) |->
            [j \in 1 .. Len(c.input_bit_positions[i]) |->
                c.input_id_links[i] \o "_" \o ToString(c.input_bit_positions[i][j])]])

\* Component._generate_output_ids: '<id>_<i>' for every output bit
generate_output_ids(c) ==
    [i \in 1 .. c.output_bit_size |-> c.id \o "_" \o ToString(i - 1)]

(***************************************************************************)
(* sat_utils: CNF clauses.  A clause is a list of literals.                *)
(***************************************************************************)
P(v) == [v |-> v, neg |-> FALSE]
N(v) == [v |-> v, neg |-> TRUE]
Clause(lits) == [t |-> "clause", lits |-> lits]
\* CryptoMiniSat xor clause 'x l1 l2 ...': the xor of the literals is true
XClause(lits) == [t |-> "xclause", lits |-> lits]

\* carry <=> majority(v0, v1, previous_carry)
cnf_carry(carry, v0, v1, prev) ==
    << Clause(<<P(carry), N(v0), N(v1)>>),
       Clause(<<P(carry), N(v0), N(prev)>>),
       Clause(<<P(carry), N(v1), N(prev)>>),
       Clause(<<N(carry), P(v0), P(v1)>>),
       Clause(<<N(carry), P(v0), P(prev)>>),
       Clause(<<N(carry), P(v1), P(prev)>>) >>

\* result <=> AND(variables)
cnf_and(result, variables) ==
    [i \in 1 .. Len(variables) |-> Clause(<<N(result), P(variables[i])>>)]
    \o << Clause(<<P(result)>> \o [i \in 1 .. Len(variables) |-> N(variables[i])]) >>

\* result <=> OR(variables)
cnf_or(result, variables) ==
    [i \in 1 .. Len(variables) |-> Clause(<<P(result), N(variables[i])>>)]
    \o << Clause(<<N(result)>> \o [i \in 1 .. Len(variables) |-> P(variables[i])]) >>

\* result <=> v0 XOR v1
cnf_xor(result, v0, v1) ==
    << Clause(<<N(result), P(v0), P(v1)>>),
       Clause(<<P(result), N(v0), P(v1)>>),
       Clause(<<P(result), P(v0), N(v1)>>),
       Clause(<<N(result), N(v0), N(v1)>>) >>

\* result <=> v0 XOR v1 XOR carry, through intermediate <=> v0 XOR v1
cnf_result(result, v0, v1, carry, intermediate) ==
    cnf_xor(intermediate, v0, v1) \o cnf_xor(result, intermediate, carry)

\* a <=> b
cnf_equivalent(a, b) ==
    << Clause(<<P(a), N(b)>>), Clause(<<N(a), P(b)>>) >>

\* a <=> NOT b
cnf_inequality(a, b) ==
    << Clause(<<P(a), P(b)>>), Clause(<<N(a), N(b)>>) >>

\* carry <=> (NOT v) AND previous_carry
cnf_carry_comp2(carry, v, prev) ==
    << Clause(<<N(carry), N(v)>>),
       Clause(<<N(carry), P(prev)>>),
       Clause(<<P(carry), P(v), N(prev)>>) >>

\* result <=> (NOT v) XOR carry
cnf_result_comp2(result, v, carry) ==
    << Clause(<<P(result), P(v), P(carry)>>),
       Clause(<<N(result), N(v), P(carry)>>),
       Clause(<<N(result), P(v), N(carry)>>),
       Clause(<<P(result), N(v), N(carry)>>) >>

(***************************************************************************)
(* smt_utils: SMT-LIB expressions as trees.                                *)
(***************************************************************************)
Var(name) == [op |-> "var", name |-> name, args |-> <<>>]
smt_op(op, args) == [op |-> op, name |-> "", args |-> args]
smt_and(args) == smt_op("and", args)
smt_or(args) == smt_op("or", args)
smt_xor(args) == smt_op("xor", args)
smt_not(a) == smt_op("not", <<a>>)
smt_equivalent(args) == smt_op("=", args)
smt_distinct(a, b) == smt_op("distinct", <<a, b>>)
smt_carry(x, y, c) == smt_or(<<smt_and(<<x, y>>), smt_and(<<x, c>>), smt_and(<<y, c>>)>>)
smt_assert(e) == [t |-> "assert", e |-> e]

(***************************************************************************)
(* modadd_component.py: two-addenda encodings and their chains.            *)
(***************************************************************************)
\* s[-1]; callers guard the empty list (IndexError)
Last(s) == s[Len(s)]

\* the length of zip(a, b, ...): the shortest list, never negative
ZipLen(lens) == Max(0, CHOOSE n \in lens : \A m \in lens : n <= m)

\* sat_modadd: the SAT modular addition between 2 addenda
sat_modadd(output_ids, input0_ids, input1_ids, carry_ids, intermediate_ids) ==
    LET n1 == ZipLen({Len(carry_ids), Len(input0_ids) - 1,
                      Len(input1_ids) - 1, Len(carry_ids) - 1})
        carries == Flat([j \in 1 .. n1 |->
                      cnf_carry(carry_ids[j], input0_ids[j + 1],
                                input1_ids[j + 1], carry_ids[j + 1])])
        n2 == ZipLen({Len(output_ids), Len(input0_ids), Len(input1_ids),
                      Len(carry_ids), Len(intermediate_ids)})
        results == Flat([j \in 1 .. n2 |->
                      cnf_result(output_ids[j], input0_ids[j], input1_ids[j],
                                 carry_ids[j], intermediate_ids[j])])
    IN  IF carry_ids = <<>> \/ input0_ids = <<>> \/ input1_ids = <<>>
            \/ output_ids = <<>>
        THEN Err("IndexError")
        ELSE Ok(carries
                \o cnf_and(Last(carry_ids), <<Last(input0_ids), Last(input1_ids)>>)
                \o results
                \o cnf_xor(Last(output_ids), Last(input0_ids), Last(input1_ids)))

\* cms_modadd: the CMS modular addition between 2 addenda
cms_modadd(output_ids, input0_ids, input1_ids, carry_ids) ==
    LET n1 == ZipLen({Len(carry_ids), Len(input0_ids) - 1,
                      Len(input1_ids) - 1, Len(carry_ids) - 1})
        carries == Flat([j \in 1 .. n1 |->
                      cnf_carry(carry_ids[j], input0_ids[j + 1],
                                input1_ids[j + 1], carry_ids[j + 1])])
        n2 == ZipLen({Len(output_ids), Len(input0_ids), Len(input1_ids),
                      Len(carry_ids)})
        results == [j \in 1 .. n2 |->
                      XClause(<<N(output_ids[j]), P(input0_ids[j]),
                                P(input1_ids[j]), P(carry_ids[j])>>)]
    IN  IF carry_ids = <<>> \/ input0_ids = <<>> \/ input1_ids = <<>>
            \/ output_ids = <<>>
        THEN Err("IndexError")
        ELSE Ok(carries
                \o cnf_and(Last(carry_ids), <<Last(input0_ids), Last(input1_ids)>>)
                \o results
                \o << XClause(<<N(Last(output_ids)), P(Last(input0_ids)),
                                P(Last(input1_ids))>>) >>)

\* smt_modadd: the SMT modular addition between 2 addenda
smt_modadd(output_ids, input0_ids, input1_ids, carry_ids) ==
    LET n1 == ZipLen({Len(carry_ids), Len(input0_ids) - 1,
                      Len(input1_ids) - 1, Len(carry_ids) - 1})
        carries == [j \in 1 .. n1 |->
                      smt_assert(smt_equivalent(<<Var(carry_ids[j]),
                          smt_carry(Var(input0_ids[j + 1]), Var(input1_ids[j + 1]),
                                    Var(carry_ids[j + 1]))>>))]
        n2 == ZipLen({Len(output_ids), Len(input0_ids), Len(input1_ids),
                      Len(carry_ids)})
        results == [j \in 1 .. n2 |->
                      smt_assert(smt_equivalent(<<Var(output_ids[j]),
                          smt_xor(<<Var(input0_ids[j]), Var(input1_ids[j]),
                                    Var(carry_ids[j])>>)>>))]
    IN  IF carry_ids = <<>> \/ input0_ids = <<>> \/ input1_ids = <<>>
            \/ output_ids = <<>>
        THEN Err("IndexError")
        ELSE Ok(carries
                \o << smt_assert(smt_equivalent(<<Var(Last(carry_ids)),
                          smt_and(<<Var(Last(input0_ids)), Var(Last(input1_ids))>>)>>)) >>
                \o results
                \o << smt_assert(smt_equivalent(<<Var(Last(output_ids)),
                          smt_xor(<<Var(Last(input0_ids)), Var(Last(input1_ids))>>)>>)) >>)

\* sat_modadd_seq with every later stage adding to the result of stage 0
\* (outputs_ids[0]) instead of the result of the stage before it
sat_modadd_seq_from_first(outputs_ids, inputs_ids, carries_ids, intermediates_ids) ==
    IF Len(outputs_ids) < 1 \/ Len(inputs_ids) < 2 \/ Len(carries_ids) < 1
        \/ Len(intermediates_ids) < 1
    THEN Err("IndexError")
    ELSE ExtendAll(
           << sat_modadd(outputs_ids[1], inputs_ids[1], inputs_ids[2],
                         carries_ids[1], intermediates_ids[1]) >>
           \o [i \in 1 .. (Len(outputs_ids) - 1) |->
                 IF Len(inputs_ids) < i + 2 \/ Len(carries_ids) < i + 1
                     \/ Len(intermediates_ids) < i + 1
                 THEN Err("IndexError")
                 ELSE sat_modadd(outputs_ids[i + 1], outputs_ids[1], inputs_ids[i + 2],
                                 carries_ids[i + 1], intermediates_ids[i + 1])])

\* sat_modadd_seq: the SAT modular addition between more than 2 addenda
sat_modadd_seq(outputs_ids, inputs_ids, carries_ids, intermediates_ids) ==
    IF Len(outputs_ids) < 1 \/ Len(inputs_ids) < 2 \/ Len(carries_ids) < 1
        \/ Len(intermediates_ids) < 1
    THEN Err("IndexError")
    ELSE ExtendAll(
           << sat_modadd(outputs_ids[1], inputs_ids[1], inputs_ids[2],
                         carries_ids[1], intermediates_ids[1]) >>
           \o [i \in 1 .. (Len(outputs_ids) - 1) |->
                 IF Len(inputs_ids) < i + 2 \/ Len(carries_ids) < i + 1
                     \/ Len(intermediates_ids) < i + 1
                 THEN Err("IndexError")
                 ELSE sat_modadd(outputs_ids[i + 1], outputs_ids[i], inputs_ids[i + 2],
                                 carries_ids[i + 1], intermediates_ids[i + 1])])

\* cms_modadd_seq: the CMS modular addition between more than 2 addenda
cms_modadd_seq(outputs_ids, inputs_ids, carries_ids) ==
    IF Len(outputs_ids) < 1 \/ Len(inputs_ids) < 2 \/ Len(carries_ids) < 1
    THEN Err("IndexError")
    ELSE ExtendAll(
           << cms_modadd(outputs_ids[1], inputs_ids[1], inputs_ids[2], carries_ids[1]) >>
           \o [i \in 1 .. (Len(outputs_ids) - 1) |->
                 IF Len(inputs_ids) < i + 2 \/ Len(carries_ids) < i + 1
                 THEN Err("IndexError")
                 ELSE cms_modadd(outputs_ids[i + 1], outputs_ids[i], inputs_ids[i + 2],
                                 carries_ids[i + 1])])

\* smt_modadd_seq: the SMT modular addition between more than 2 addenda
smt_modadd_seq(outputs_ids, inputs_ids, carries_ids) ==
    IF Len(outputs_ids) < 1 \/ Len(inputs_ids) < 2 \/ Len(carries_ids) < 1
    THEN Err("IndexError")
    ELSE ExtendAll(
           << smt_modadd(outputs_ids[1], inputs_ids[1], inputs_ids[2], carries_ids[1]) >>
           \o [i \in 1 .. (Len(outputs_ids) - 1) |->
                 IF Len(inputs_ids) < i + 2 \/ Len(carries_ids) < i + 1
                 THEN Err("IndexError")
                 ELSE smt_modadd(outputs_ids[i + 1], outputs_ids[i], inputs_ids[i + 2],
                                 carries_ids[i + 1])])

\* The artifact an encoder returns, or the exception it raises.
Artifact(ids, declarations, r) ==
    IF r.raised # "none"
    THEN [raised |-> r.raised, ids |-> <<>>, declarations |-> <<>>, constraints |-> <<>>]
    ELSE [raised |-> "none", ids |-> ids, declarations |-> declarations,
          constraints |-> r.val]

NoArtifact ==
    [raised |-> "none", ids |-> <<>>, declarations |-> <<>>, constraints |-> <<>>]

\* inputs_ids = [input_ids[i * output_len: (i + 1) * output_len] for i in range(k)]
ModaddInputsIds(c) ==
    [i \in 1 .. NumOperands(c) |->
        PySlice(generate_input_ids(c), (i - 1) * c.output_bit_size,
                i * c.output_bit_size)]

\* carries_ids with the stage number left out of the names:
\* f'carry_{output_id}' for every stage
ModaddCarriesIds_unnumbered(c) ==
    [i \in 1 .. (NumOperands(c) - 1) |->
        [j \in 1 .. Len(ButLast(generate_output_ids(c))) |->
            "carry_" \o generate_output_ids(c)[j]]]

\* carries_ids = [[f'carry_{i:03}_{output_id}' for output_id in output_ids[:-1]] ...]
ModaddCarriesIds(c) ==
    [i \in 1 .. (NumOperands(c) - 1) |->
        [j \in 1 .. Len(ButLast(generate_output_ids(c))) |->
            "carry_" \o Pad3(i - 1) \o "_" \o generate_output_ids(c)[j]]]

\* intermediates_ids = [[f'modadd_intermediate_{i:03}_{output_id}' ...] ...]
ModaddIntermediatesIds(c) ==
    [i \in 1 .. (NumOperands(c) - 1) |->
        [j \in 1 .. c.output_bit_size |->
            "modadd_intermediate_" \o Pad3(i - 1) \o "_" \o generate_output_ids(c)[j]]]

\* outputs_ids = [[f'modadd_output_{i:03}_{output_id}' ...] for i in range(k - 2)]
\*               + [output_ids]
ModaddOutputsIds(c) ==
    [i \in 1 .. (NumOperands(c) - 2) |->
        [j \in 1 .. c.output_bit_size |->
            "modadd_output_" \o Pad3(i - 1) \o "_" \o generate_output_ids(c)[j]]]
    \o << generate_output_ids(c) >>

\* MODADD.sat_constraints
MODADD_sat_constraints(c) ==
    Artifact(Flat(ModaddCarriesIds(c)) \o Flat(ModaddIntermediatesIds(c))
                \o Flat(ModaddOutputsIds(c)),
             <<>>,
             sat_modadd_seq(ModaddOutputsIds(c), ModaddInputsIds(c),
                            ModaddCarriesIds(c), ModaddIntermediatesIds(c)))

\* MODADD.cms_constraints returning the id list of sat_constraints, intermediate
\* ids included
MODADD_cms_constraints_sat_ids(c) ==
    Artifact(Flat(ModaddCarriesIds(c)) \o Flat(ModaddIntermediatesIds(c))
                \o Flat(ModaddOutputsIds(c)),
             <<>>,
             cms_modadd_seq(ModaddOutputsIds(c), ModaddInputsIds(c), ModaddCarriesIds(c)))

\* MODADD.cms_constraints
MODADD_cms_constraints(c) ==
    Artifact(Flat(ModaddCarriesIds(c)) \o Flat(ModaddOutputsIds(c)),
             <<>>,
             cms_modadd_seq(ModaddOutputsIds(c), ModaddInputsIds(c), ModaddCarriesIds(c)))

\* MODADD.smt_constraints
MODADD_smt_constraints(c) ==
    Artifact(Flat(ModaddCarriesIds(c)) \o Flat(ModaddOutputsIds(c)),
             <<>>,
             smt_modadd_seq(ModaddOutputsIds(c), ModaddInputsIds(c), ModaddCarriesIds(c)))

(***************************************************************************)
(* CP declarations and constraints (MiniZinc text as records).             *)
(***************************************************************************)
\* f'{name}[{i}]'
Elem(name, i) == [a |-> name, i |-> i]

\* f'array[{lo}..{hi}] of var 0..1: {name};' (value: the array1d literal)
Decl(name, lo, hi) == [name |-> name, lo |-> lo, hi |-> hi, value |-> <<>>]
DeclConst(name, lo, hi, value) == [name |-> name, lo |-> lo, hi |-> hi, value |-> value]
\* f'array[{lo}..{hi}] of var int: {name};'
DeclInt(name, lo, hi) ==
    [name |-> name, lo |-> lo, hi |-> hi, value |-> <<>>, def |-> <<"int">>]
\* f'array[0..{n - 1}] of var 0..1: Shi_{a} = LShift({a},1);'
DeclShift(a, n) ==
    [name |-> "Shi_" \o a, lo |-> 0, hi |-> n - 1, value |-> <<>>,
     def |-> <<"LShift", a>>]
\* f'array[0..{n - 1}] of var 0..1: eq_{out} = Eq(Shi_{a}, Shi_{b}, Shi_{out});'
DeclEq(a, b, out, n) ==
    [name |-> "eq_" \o out, lo |-> 0, hi |-> n - 1, value |-> <<>>,
     def |-> <<"Eq", "Shi_" \o a, "Shi_" \o b, "Shi_" \o out>>]

\* f'constraint {lhs} = {rhs};'
CpEq(lhs, rhs) == [t |-> "cp_eq", lhs |-> lhs, terms |-> <<<<rhs>>>>, const |-> 0]
\* f'constraint {lhs} = ({m1} + {m2} + ... + const) mod 2;', each m a product
CpMod2(lhs, terms, const) == [t |-> "cp_mod2", lhs |-> lhs, terms |-> terms, const |-> const]
\* f'constraint modadd({a},{b},{c});'
CpModadd(a, b, c) == [t |-> "cp_modadd", a |-> a, b |-> b, c |-> c]
\* f'constraint or({a},{b},{c});'
CpOr(a, b, c) == [t |-> "cp_or", a |-> a, b |-> b, c |-> c]

\* f'constraint table({e1}++{e2}++...,{lat});'
CpTable(elems, lat) == [t |-> "cp_table", elems |-> elems, lat |-> lat]
\* f'constraint p[{slot}] = sum({array});'
CpSum(slot, array) == [t |-> "cp_sum", slot |-> slot, array |-> array]
\* f'constraint forall(j in 0..{n - 1})(if eq_{out}[j] = 1 then (sum([{a}[j],
\* {b}[j], {out}[j]]) mod 2) = Shi_{b}[j] else true endif) /\\ p[{slot}] =
\* {100 * n}-100 * sum(eq_{out});'
CpXorDiff(a, b, out, n, slot) ==
    [t |-> "cp_xor_diff", a |-> a, b |-> b, out |-> out, n |-> n, slot |-> slot]

\* the pair (cp_declarations, cp_constraints) the CP encoders thread along
CpPair(d, c) == [declarations |-> d, constraints |-> c]

\* all_inputs: f'{id_link}[{position}]' for every wired bit
AllInputs(c) ==
    Flat([i \in 1 .. Len(c.input_id_links) |->
            [j \in 1 .. Len(c.input_bit_positions[i]) |->
                Elem(c.input_id_links[i], c.input_bit_positions[i][j])]])

\* the pre_<id>_<i> declarations and their wiring constraints, i in range(num_add)
PreArrays(c, input_len) ==
    CpPair([i \in 1 .. NumOperands(c) |->
               Decl("pre_" \o c.id \o "_" \o ToString(i - 1), 0, input_len - 1)],
           Flat([i \in 1 .. NumOperands(c) |->
               [j \in 1 .. input_len |->
                   CpEq(Elem("pre_" \o c.id \o "_" \o ToString(i - 1), j - 1),
                        AllInputs(c)[(i - 1) * input_len + j])]]))

\* modadd_component.cp_twoterms
modadd_cp_twoterms(input_1, input_2, out, input_length, acc) ==
    LET L == input_length
        carry == "carry_" \o out
    IN  CpPair(
          acc.declarations \o << Decl(carry, 1, L - 1) >>,
          acc.constraints
          \o [i \in 1 .. (L - 2) |->
                CpMod2(Elem(carry, i),
                       << <<Elem(input_1, i), Elem(input_2, i)>>,
                          <<Elem(input_1, i), Elem(carry, i + 1)>>,
                          <<Elem(carry, i + 1), Elem(input_2, i)>> >>, 0)]
          \o << CpMod2(Elem(carry, L - 1),
                       << <<Elem(input_1, L - 1), Elem(input_2, L - 1)>> >>, 0) >>
          \o [n \in 1 .. (L - 1) |->
                CpMod2(Elem(out, n - 1),
                       << <<Elem(input_1, n - 1)>>, <<Elem(input_2, n - 1)>>,
                          <<Elem(carry, n)>> >>, 0)]
          \o << CpMod2(Elem(out, L - 1),
                       << <<Elem(input_1, L - 1)>>, <<Elem(input_2, L - 1)>> >>, 0) >>)

RECURSIVE ModaddCpChain(_, _, _)
\* for i in range(num_add - 2): cp_twoterms(pre_{num_add - 1}, pre_{i + 1},
\*                                          pre_{num_add + i}, ...)
ModaddCpChain(c, n, acc) ==
    IF n <= 0 THEN acc
    ELSE LET num_add == NumOperands(c)
             i == n - 1
             pre(x) == "pre_" \o c.id \o "_" \o ToString(x)
         IN  modadd_cp_twoterms(pre(num_add - 1), pre(i + 1), pre(num_add + i),
                                c.output_bit_size, ModaddCpChain(c, n - 1, acc))

\* MODADD.cp_constraints
MODADD_cp_constraints(c) ==
    LET num_add == NumOperands(c)
        input_len == Len(AllInputs(c)) \div num_add
        pre(x) == "pre_" \o c.id \o "_" \o ToString(x)
        pres == PreArrays(c, input_len)
        staged == CpPair(
            pres.declarations
              \o [i \in 1 .. (num_add - 2) |-> Decl(pre(num_add + i - 1), 0, input_len - 1)],
            pres.constraints)
        chained == ModaddCpChain(c, num_add - 2, staged)
        final == modadd_cp_twoterms(pre(2 * num_add - 3), pre(0), c.id,
                                    c.output_bit_size, chained)
    IN  [raised |-> "none", ids |-> <<>>, declarations |-> final.declarations,
         constraints |-> final.constraints]

\* if name not in model.modadd_twoterms_mant: declare Shi_<name> and append name
ShiftOnce(name, inplen, st) ==
    IF \E i \in DOMAIN st.mant : st.mant[i] = name
    THEN st
    ELSE [declarations |-> Append(st.declarations, DeclShift(name, inplen)),
          mant |-> Append(st.mant, name)]

\* MODADD.cp_twoterms_xor_differential_probability taking the next weight slot
\* itself (model.c incremented)
MODADD_cp_twoterms_xor_differential_probability_counting(inp1, inp2, out, inplen, acc, c, m) ==
    LET s0 == [declarations |-> acc.declarations, mant |-> m.modadd_twoterms_mant]
        s3 == ShiftOnce(out, inplen, ShiftOnce(inp2, inplen, ShiftOnce(inp1, inplen, s0)))
    IN  [art |-> [raised |-> "none", ids |-> <<>>,
                  declarations |-> Append(s3.declarations, DeclEq(inp1, inp2, out, inplen)),
                  constraints |-> Append(acc.constraints,
                                         CpXorDiff(inp1, inp2, out, inplen, c))],
         model |-> [m EXCEPT !.modadd_twoterms_mant = s3.mant, !.c = m.c + 1]]

\* MODADD.cp_twoterms_xor_differential_probability with the three membership
\* tests made against the list as it was when the call started
MODADD_cp_twoterms_xor_differential_probability_tested_first(inp1, inp2, out, inplen, acc, c, m) ==
    LET seen(name) == \E i \in DOMAIN m.modadd_twoterms_mant :
                          m.modadd_twoterms_mant[i] = name
        new == SelectSeq(<<inp1, inp2, out>>, LAMBDA name : ~seen(name))
    IN  [art |-> [raised |-> "none", ids |-> <<>>,
                  declarations |->
                      acc.declarations
                        \o [i \in DOMAIN new |-> DeclShift(new[i], inplen)]
                        \o << DeclEq(inp1, inp2, out, inplen) >>,
                  constraints |-> Append(acc.constraints,
                                         CpXorDiff(inp1, inp2, out, inplen, c))],
         model |-> [m EXCEPT !.modadd_twoterms_mant = @ \o new]]

\* MODADD.cp_twoterms_xor_differential_probability: the lists it returns and the
\* model it leaves
MODADD_cp_twoterms_xor_differential_probability(inp1, inp2, out, inplen, acc, c, m) ==
    LET s0 == [declarations |-> acc.declarations, mant |-> m.modadd_twoterms_mant]
        s3 == ShiftOnce(out, inplen, ShiftOnce(inp2, inplen, ShiftOnce(inp1, inplen, s0)))
    IN  [art |-> [raised |-> "none", ids |-> <<>>,
                  declarations |-> Append(s3.declarations, DeclEq(inp1, inp2, out, inplen)),
                  constraints |-> Append(acc.constraints,
                                         CpXorDiff(inp1, inp2, out, inplen, c))],
         model |-> [m EXCEPT !.modadd_twoterms_mant = s3.mant]]

(***************************************************************************)
(* Polynomials over GF(2) in a boolean polynomial ring: a polynomial is    *)
(* the set of its monomials, a monomial the set of its variables.          *)
(***************************************************************************)
PolyZero == {}
PolyOne == {{}}
PolyVar(name) == {{name}}
PolyAdd(p, q) == (p \ q) \cup (q \ p)
PolyMul(p, q) ==
    {m \in {a \cup b : a \in p, b \in q} :
        Cardinality({ab \in p \X q : ab[1] \cup ab[2] = m}) % 2 = 1}
PolySum(ps) ==
    LET RECURSIVE S(_)
        S(n) == IF n = 0 THEN PolyZero ELSE PolyAdd(S(n - 1), ps[n])
    IN  S(Len(ps))
Poly(p) == [t |-> "poly", p |-> p]

\* def maj(xi, yi, zi): return xi * yi + xi * zi + yi * zi
maj(xi, yi, zi) == PolySum(<<PolyMul(xi, yi), PolyMul(xi, zi), PolyMul(yi, zi)>>)

\* model.input_postfix, model.output_postfix
AlgInputVars(c) ==
    [i \in 1 .. input_bit_size(c) |-> c.id \o "_x" \o ToString(i - 1)]
AlgOutputVars(c) ==
    [i \in 1 .. c.output_bit_size |-> c.id \o "_y" \o ToString(i - 1)]

\* one addition z = x + y of MODADD.algebraic_polynomials (the body of the loop
\* over n)
ModaddAlgStage(x, y, z, cy, word_size) ==
    IF Len(x) < word_size \/ Len(y) < word_size \/ Len(z) < word_size
        \/ Len(cy) < word_size \/ word_size < 1
    THEN Err("IndexError")
    ELSE Ok(<< Poly(PolyAdd(PolyVar(cy[1]), PolyZero)),
               Poly(PolySum(<<PolyVar(x[1]), PolyVar(y[1]), PolyVar(z[1]),
                              PolyVar(cy[1])>>)) >>
            \o Flat([i \in 1 .. (word_size - 1) |->
                 << Poly(PolyAdd(PolyVar(cy[i + 1]),
                                 maj(PolyVar(x[i]), PolyVar(y[i]), PolyVar(cy[i])))),
                    Poly(PolySum(<<PolyVar(x[i + 1]), PolyVar(y[i + 1]),
                                   PolyVar(z[i + 1]), PolyVar(cy[i + 1])>>)) >>]))

\* MODADD.algebraic_polynomials
MODADD_algebraic_polynomials(c) ==
    LET nadditions == NumOperands(c) - 1
        word_size == c.output_bit_size
        input_vars == AlgInputVars(c)
        output_vars == AlgOutputVars(c)
        carries_vars == [n \in 1 .. nadditions |->
                            [i \in 1 .. word_size |->
                                c.id \o "_c" \o ToString(n - 1) \o "_" \o ToString(i - 1)]]
        aux_outputs_vars == [n \in 1 .. (nadditions - 1) |->
                            [i \in 1 .. word_size |->
                                c.id \o "_o" \o ToString(n - 1) \o "_" \o ToString(i - 1)]]
        stage(n) ==
            ModaddAlgStage(
                IF n = 0 THEN PySlice(input_vars, 0, word_size) ELSE aux_outputs_vars[n],
                PySlice(input_vars, (n + 1) * word_size, (n + 1) * word_size + word_size),
                IF n = nadditions - 1 THEN output_vars ELSE aux_outputs_vars[n + 1],
                carries_vars[n + 1], word_size)
    IN  Artifact(<<>>, <<>>, ExtendAll([m \in 1 .. nadditions |-> stage(m - 1)]))

(***************************************************************************)
(* modsub_component.py                                                     *)
(***************************************************************************)
\* twocomp_carry_ids = [f'twocomp_carry_{input_id}' for input_id in input_ids[:-1]]
TwocompCarryIds(input_ids) ==
    [i \in 1 .. Len(ButLast(input_ids)) |-> "twocomp_carry_" \o input_ids[i]]

\* twocomp_result_ids = [f'twocomp_result_{input_id}' for input_id in input1_ids]
TwocompResultIds(input_ids) ==
    [i \in 1 .. Len(input_ids) |-> "twocomp_result_" \o input_ids[i]]

\* two_complement_sat_constraints with the chain seeded with a carry-in of 0:
\* the last carry is made equal to the last input bit
two_complement_sat_constraints_seed0(twocomp_result_ids, input_ids) ==
    LET twocomp_carry_ids == TwocompCarryIds(input_ids)
        n1 == ZipLen({Len(twocomp_carry_ids), Len(input_ids) - 1,
                      Len(twocomp_carry_ids) - 1})
        carries == Flat([j \in 1 .. n1 |->
                      cnf_carry_comp2(twocomp_carry_ids[j], input_ids[j + 1],
                                      twocomp_carry_ids[j + 1])])
        n2 == ZipLen({Len(twocomp_result_ids), Len(input_ids), Len(twocomp_carry_ids)})
        results == Flat([j \in 1 .. n2 |->
                      cnf_result_comp2(twocomp_result_ids[j], input_ids[j],
                                       twocomp_carry_ids[j])])
    IN  IF twocomp_carry_ids = <<>> \/ input_ids = <<>> \/ twocomp_result_ids = <<>>
        THEN Err("IndexError")
        ELSE Ok(carries
                \o cnf_equivalent(Last(twocomp_carry_ids), Last(input_ids))
                \o results
                \o cnf_equivalent(Last(twocomp_result_ids), Last(input_ids)))

\* two_complement_sat_constraints (the constraints it returns)
two_complement_sat_constraints(twocomp_result_ids, input_ids) ==
    LET twocomp_carry_ids == TwocompCarryIds(input_ids)
        n1 == ZipLen({Len(twocomp_carry_ids), Len(input_ids) - 1,
                      Len(twocomp_carry_ids) - 1})
        carries == Flat([j \in 1 .. n1 |->
                      cnf_carry_comp2(twocomp_carry_ids[j], input_ids[j + 1],
                                      twocomp_carry_ids[j + 1])])
        n2 == ZipLen({Len(twocomp_result_ids), Len(input_ids), Len(twocomp_carry_ids)})
        results == Flat([j \in 1 .. n2 |->
                      cnf_result_comp2(twocomp_result_ids[j], input_ids[j],
                                       twocomp_carry_ids[j])])
    IN  IF twocomp_carry_ids = <<>> \/ input_ids = <<>> \/ twocomp_result_ids = <<>>
        THEN Err("IndexError")
        ELSE Ok(carries
                \o cnf_inequality(Last(twocomp_carry_ids), Last(input_ids))
                \o results
                \o cnf_equivalent(Last(twocomp_result_ids), Last(input_ids)))

\* input1_ids = input_ids[output_len:]
ModsubInput1Ids(c) ==
    PySlice(generate_input_ids(c), c.output_bit_size, Len(generate_input_ids(c)))
\* input_ids[:output_len]
ModsubInput0Ids(c) ==
    PySlice(generate_input_ids(c), 0, c.output_bit_size)
\* carry_ids = [f'carry_{output_id}' for output_id in output_ids[:-1]]
ModsubCarryIds(c) ==
    [j \in 1 .. Len(ButLast(generate_output_ids(c))) |->
        "carry_" \o generate_output_ids(c)[j]]
\* intermediate_ids = [f'intermediate_{output_id}' for output_id in output_ids]
ModsubIntermediateIds(c) ==
    [j \in 1 .. c.output_bit_size |-> "intermediate_" \o generate_output_ids(c)[j]]

\* MODSUB.sat_constraints returning the id list of cms_constraints, which has no
\* intermediate ids
MODSUB_sat_constraints_cms_ids(c) ==
    LET input1_ids == ModsubInput1Ids(c)
        twocomp_result_ids == TwocompResultIds(input1_ids)
    IN  Artifact(TwocompCarryIds(input1_ids) \o twocomp_result_ids \o ModsubCarryIds(c)
                    \o generate_output_ids(c),
                 <<>>,
                 Extend(two_complement_sat_constraints(twocomp_result_ids, input1_ids),
                        sat_modadd(generate_output_ids(c), ModsubInput0Ids(c),
                                   twocomp_result_ids, ModsubCarryIds(c),
                                   ModsubIntermediateIds(c))))

\* MODSUB.sat_constraints
MODSUB_sat_constraints(c) ==
    LET input1_ids == ModsubInput1Ids(c)
        twocomp_result_ids == TwocompResultIds(input1_ids)
    IN  Artifact(TwocompCarryIds(input1_ids) \o twocomp_result_ids \o ModsubCarryIds(c)
                    \o ModsubIntermediateIds(c) \o generate_output_ids(c),
                 <<>>,
                 Extend(two_complement_sat_constraints(twocomp_result_ids, input1_ids),
                        sat_modadd(generate_output_ids(c), ModsubInput0Ids(c),
                                   twocomp_result_ids, ModsubCarryIds(c),
                                   ModsubIntermediateIds(c))))

\* MODSUB.cms_constraints
MODSUB_cms_constraints(c) ==
    LET input1_ids == ModsubInput1Ids(c)
        twocomp_result_ids == TwocompResultIds(input1_ids)
    IN  Artifact(TwocompCarryIds(input1_ids) \o twocomp_result_ids \o ModsubCarryIds(c)
                    \o generate_output_ids(c),
                 <<>>,
                 Extend(two_complement_sat_constraints(twocomp_result_ids, input1_ids),
                        cms_modadd(generate_output_ids(c), ModsubInput0Ids(c),
                                   twocomp_result_ids, ModsubCarryIds(c))))

\* the two's complement part of MODSUB.smt_constraints with each carry reading
\* the input bit of its own position (input1_ids instead of input1_ids[1:])
two_complement_smt_constraints_unshifted(twocomp_result_ids, input1_ids) ==
    LET twocomp_carry_ids == TwocompCarryIds(input1_ids)
        n1 == ZipLen({Len(twocomp_carry_ids), Len(input1_ids) - 1,
                      Len(twocomp_carry_ids) - 1})
        carries == [j \in 1 .. n1 |->
                      smt_assert(smt_equivalent(<<Var(twocomp_carry_ids[j]),
                          smt_and(<<smt_not(Var(input1_ids[j])),
                                    Var(twocomp_carry_ids[j + 1])>>)>>))]
        n2 == ZipLen({Len(twocomp_result_ids), Len(input1_ids), Len(twocomp_carry_ids)})
        results == [j \in 1 .. n2 |->
                      smt_assert(smt_equivalent(<<Var(twocomp_result_ids[j]),
                          smt_xor(<<smt_not(Var(input1_ids[j])),
                                    Var(twocomp_carry_ids[j])>>)>>))]
    IN  IF twocomp_carry_ids = <<>> \/ input1_ids = <<>> \/ twocomp_result_ids = <<>>
        THEN Err("IndexError")
        ELSE Ok(carries
                \o << smt_assert(smt_distinct(Var(Last(twocomp_carry_ids)),
                                              Var(Last(input1_ids)))) >>
                \o results
                \o << smt_assert(smt_equivalent(<<Var(Last(twocomp_result_ids)),
                                                  Var(Last(input1_ids))>>)) >>)

\* the two's complement part of MODSUB.smt_constraints
two_complement_smt_constraints(twocomp_result_ids, input1_ids) ==
    LET twocomp_carry_ids == TwocompCarryIds(input1_ids)
        n1 == ZipLen({Len(twocomp_carry_ids), Len(input1_ids) - 1,
                      Len(twocomp_carry_ids) - 1})
        carries == [j \in 1 .. n1 |->
                      smt_assert(smt_equivalent(<<Var(twocomp_carry_ids[j]),
                          smt_and(<<smt_not(Var(input1_ids[j + 1])),
                                    Var(twocomp_carry_ids[j + 1])>>)>>))]
        n2 == ZipLen({Len(twocomp_result_ids), Len(input1_ids), Len(twocomp_carry_ids)})
        results == [j \in 1 .. n2 |->
                      smt_assert(smt_equivalent(<<Var(twocomp_result_ids[j]),
                          smt_xor(<<smt_not(Var(input1_ids[j])),
                                    Var(twocomp_carry_ids[j])>>)>>))]
    IN  IF twocomp_carry_ids = <<>> \/ input1_ids = <<>> \/ twocomp_result_ids = <<>>
        THEN Err("IndexError")
        ELSE Ok(carries
                \o << smt_assert(smt_distinct(Var(Last(twocomp_carry_ids)),
                                              Var(Last(input1_ids)))) >>
                \o results
                \o << smt_assert(smt_equivalent(<<Var(Last(twocomp_result_ids)),
                                                  Var(Last(input1_ids))>>)) >>)

\* MODSUB.smt_constraints
MODSUB_smt_constraints(c) ==
    LET input1_ids == ModsubInput1Ids(c)
        twocomp_result_ids == TwocompResultIds(input1_ids)
    IN  Artifact(TwocompCarryIds(input1_ids) \o twocomp_result_ids \o ModsubCarryIds(c)
                    \o generate_output_ids(c),
                 <<>>,
                 Extend(two_complement_smt_constraints(twocomp_result_ids, input1_ids),
                        smt_modadd(generate_output_ids(c), ModsubInput0Ids(c),
                                   twocomp_result_ids, ModsubCarryIds(c))))

\* modsub_component.cp_twoterms
modsub_cp_twoterms(input_1, input_2, out, component_name, input_length, acc) ==
    CpPair(
      acc.declarations
        \o << Decl("pre_minus_" \o input_2, 0, input_length - 1),
              Decl("minus_" \o input_2, 0, input_length - 1) >>,
      acc.constraints
        \o [n \in 1 .. input_length |->
              CpMod2(Elem("pre_minus_" \o input_2, n - 1), << <<Elem(input_2, n - 1)>> >>, 1)]
        \o << CpModadd("pre_minus_" \o input_2, "constant_" \o component_name,
                       "minus_" \o input_2),
              CpModadd(input_1, "minus_" \o input_2, out) >>)

\* array[0..w-1] of var 0..1: constant_<id> = array1d(0..w-1, [0, ..., 0, 1]);
\* array[0..w-1] of var 0..1: <id>;
OutputAndConstant(c) ==
    << DeclConst("constant_" \o c.id, 0, c.output_bit_size - 1,
                 [i \in 1 .. (c.output_bit_size - 1) |-> 0] \o <<1>>),
       Decl(c.id, 0, c.output_bit_size - 1) >>

\* for i in range(num_add - 2): declare temp_<id>_<i>
TempArrays(c) ==
    [i \in 1 .. (NumOperands(c) - 2) |->
        Decl("temp_" \o c.id \o "_" \o ToString(i - 1), 0, c.output_bit_size - 1)]

RECURSIVE ModsubCpLoop(_, _, _)
\* for i in range(1, num_add - 2): the two cp_twoterms calls of the loop body,
\* iterations 1 .. n
ModsubCpLoop(c, n, acc) ==
    IF n <= 0 THEN acc
    ELSE LET num_add == NumOperands(c)
             pre(x) == "pre_" \o c.id \o "_" \o ToString(x)
             temp(x) == "temp_" \o c.id \o "_" \o ToString(x)
             before == ModsubCpLoop(c, n - 1, acc)
             step == modsub_cp_twoterms(pre(n + 1), temp(n - 1), temp(n), c.id,
                                        c.output_bit_size, before)
         IN  modsub_cp_twoterms(pre(num_add - 1), temp(num_add - 3), c.id, c.id,
                                c.output_bit_size, step)

\* MODSUB.cp_constraints
MODSUB_cp_constraints(c) ==
    LET num_add == NumOperands(c)
        input_len == Len(AllInputs(c)) \div num_add
        pre(x) == "pre_" \o c.id \o "_" \o ToString(x)
        temp(x) == "temp_" \o c.id \o "_" \o ToString(x)
        pres == PreArrays(c, input_len)
        start == CpPair(OutputAndConstant(c) \o pres.declarations \o TempArrays(c),
                        pres.constraints)
        final ==
            IF num_add = 2
            THEN modsub_cp_twoterms(pre(0), pre(1), c.id, c.id, c.output_bit_size, start)
            ELSE IF num_add > 2
            THEN ModsubCpLoop(c, num_add - 3,
                     modsub_cp_twoterms(pre(0), pre(1), temp(0), c.id,
                                        c.output_bit_size, start))
            ELSE start
    IN  [raised |-> "none", ids |-> <<>>, declarations |-> final.declarations,
         constraints |-> final.constraints]

(***************************************************************************)
(* or_component.py                                                         *)
(***************************************************************************)
\* def or_polynomial(x0, x1): return x0 * x1 + x0 + x1
or_polynomial(x0, x1) == PolySum(<<PolyMul(x0, x1), x0, x1>>)

RECURSIVE OrFold(_, _, _)
\* x[i] after the first n words: x[i] = or_polynomial(x[i], word_vars[i])
OrFold(words_vars, n, i) ==
    IF n = 0 THEN PolyOne
    ELSE or_polynomial(OrFold(words_vars, n - 1, i), PolyVar(words_vars[n][i]))

\* OR.algebraic_polynomials
OR_algebraic_polynomials(c) ==
    LET ninputs == input_bit_size(c)
        noutputs == c.output_bit_size
        word_size == noutputs
        nwords == IF word_size > 0 THEN (ninputs + word_size - 1) \div word_size ELSE 0
        words_vars == [n \in 1 .. nwords |->
                         PySlice(AlgInputVars(c), (n - 1) * word_size, n * word_size)]
        y == AlgOutputVars(c)
    IN  IF \E n \in 1 .. nwords : Len(words_vars[n]) < noutputs
        THEN Artifact(<<>>, <<>>, Err("IndexError"))
        ELSE Artifact(<<>>, <<>>,
                 Ok([i \in 1 .. noutputs |->
                        Poly(PolyAdd(PolyVar(y[i]), OrFold(words_vars, nwords, i)))]))

\* OR.cp_constraints with the last step reading temp_<id>_0 instead of
\* temp_<id>_{num_add - 3}
OR_cp_constraints_first_temp(c) ==
    LET num_add == NumOperands(c)
        input_len == Len(AllInputs(c)) \div num_add
        pre(x) == "pre_" \o c.id \o "_" \o ToString(x)
        temp(x) == "temp_" \o c.id \o "_" \o ToString(x)
        pres == PreArrays(c, input_len)
        declarations == << Decl(c.id, 0, c.output_bit_size - 1) >>
                          \o pres.declarations \o TempArrays(c)
        ors == IF num_add = 2
               THEN << CpOr(pre(0), pre(1), c.id) >>
               ELSE IF num_add > 2
               THEN << CpOr(pre(0), pre(1), temp(0)) >>
                    \o [i \in 1 .. (num_add - 3) |-> CpOr(pre(i + 1), temp(i - 1), temp(i))]
                    \o << CpOr(pre(num_add - 1), temp(0), c.id) >>
               ELSE <<>>
    IN  [raised |-> "none", ids |-> <<>>, declarations |-> declarations,
         constraints |-> pres.constraints \o ors]

\* OR.cp_constraints
OR_cp_constraints(c) ==
    LET num_add == NumOperands(c)
        input_len == Len(AllInputs(c)) \div num_add
        pre(x) == "pre_" \o c.id \o "_" \o ToString(x)
        temp(x) == "temp_" \o c.id \o "_" \o ToString(x)
        pres == PreArrays(c, input_len)
        declarations == << Decl(c.id, 0, c.output_bit_size - 1) >>
                          \o pres.declarations \o TempArrays(c)
        ors == IF num_add = 2
               THEN << CpOr(pre(0), pre(1), c.id) >>
               ELSE IF num_add > 2
               THEN << CpOr(pre(0), pre(1), temp(0)) >>
                    \o [i \in 1 .. (num_add - 3) |-> CpOr(pre(i + 1), temp(i - 1), temp(i))]
                    \o << CpOr(pre(num_add - 1), temp(num_add - 3), c.id) >>
               ELSE <<>>
    IN  [raised |-> "none", ids |-> <<>>, declarations |-> declarations,
         constraints |-> pres.constraints \o ors]

\* OR.cp_xor_linear_mask_propagation_constraints without the increment of
\* model.c
OR_cp_xor_linear_mask_propagation_constraints_stale_counter(c, m) ==
    LET input_size == input_bit_size(c)
        output_size == c.output_bit_size
        output_id_link == c.id
        num_add == NumOperands(c)
        input_len == input_size \div num_add
        tables ==
            [i \in 1 .. output_size |->
                CpTable([j \in 1 .. num_add |->
                            Elem(output_id_link \o "_i", (i - 1) + input_len * (j - 1))]
                        \o << Elem(output_id_link \o "_o", i - 1),
                              Elem("p_" \o output_id_link, i - 1) >>,
                        "and" \o ToString(num_add) \o "inputs_LAT")]
    IN  [art |-> [raised |-> "none", ids |-> <<>>,
                  declarations |->
                      << DeclInt("p_" \o output_id_link, 0, output_size - 1),
                         Decl(output_id_link \o "_i", 0, input_size - 1),
                         Decl(output_id_link \o "_o", 0, output_size - 1) >>,
                  constraints |-> Append(tables, CpSum(m.c, "p_" \o output_id_link))],
         model |-> [m EXCEPT !.component_and_probability = (output_id_link :> m.c) @@ @]]

\* OR.cp_xor_linear_mask_propagation_constraints with the table of bit i reading
\* the input bits num_add * i + j, as if the operands were interleaved
OR_cp_xor_linear_mask_propagation_constraints_interleaved(c, m) ==
    LET input_size == input_bit_size(c)
        output_size == c.output_bit_size
        output_id_link == c.id
        num_add == NumOperands(c)
        input_len == input_size \div num_add
        tables ==
            [i \in 1 .. output_size |->
                CpTable([j \in 1 .. num_add |->
                            Elem(output_id_link \o "_i", num_add * (i - 1) + (j - 1))]
                        \o << Elem(output_id_link \o "_o", i - 1),
                              Elem("p_" \o output_id_link, i - 1) >>,
                        "and" \o ToString(num_add) \o "inputs_LAT")]
    IN  [art |-> [raised |-> "none", ids |-> <<>>,
                  declarations |->
                      << DeclInt("p_" \o output_id_link, 0, output_size - 1),
                         Decl(output_id_link \o "_i", 0, input_size - 1),
                         Decl(output_id_link \o "_o", 0, output_size - 1) >>,
                  constraints |-> Append(tables, CpSum(m.c, "p_" \o output_id_link))],
         model |-> [m EXCEPT !.component_and_probability = (output_id_link :> m.c) @@ @,
                             !.c = m.c + 1]]

\* OR.cp_xor_linear_mask_propagation_constraints: the lists it returns and the
\* model it leaves
OR_cp_xor_linear_mask_propagation_constraints(c, m) ==
    LET input_size == input_bit_size(c)
        output_size == c.output_bit_size
        output_id_link == c.id
        num_add == NumOperands(c)
        input_len == input_size \div num_add
        tables ==
            [i \in 1 .. output_size |->
                CpTable([j \in 1 .. num_add |->
                            Elem(output_id_link \o "_i", (i - 1) + input_len * (j - 1))]
                        \o << Elem(output_id_link \o "_o", i - 1),
                              Elem("p_" \o output_id_link, i - 1) >>,
                        "and" \o ToString(num_add) \o "inputs_LAT")]
    IN  [art |-> [raised |-> "none", ids |-> <<>>,
                  declarations |->
                      << DeclInt("p_" \o output_id_link, 0, output_size - 1),
                         Decl(output_id_link \o "_i", 0, input_size - 1),
                         Decl(output_id_link \o "_o", 0, output_size - 1) >>,
                  constraints |-> Append(tables, CpSum(m.c, "p_" \o output_id_link))],
         model |-> [m EXCEPT !.component_and_probability = (output_id_link :> m.c) @@ @,
                             !.c = m.c + 1]]

\* or_LAT with the entry for left input 1, right input 1, output 1 negated
or_LAT_negated_corner ==
    << << <<1, -1>>, <<0, 1>> >>, << <<0, 1>>, <<0, -1>> >> >>

\* or_LAT = [[[1, -1], [0, 1]], [[0, 1], [0, 1]]]
or_LAT ==
    << << <<1, -1>>, <<0, 1>> >>, << <<0, 1>>, <<0, 1>> >> >>

\* OR.generic_sign_linear_constraints with the right input read right after the
\* first operand, at index output_size + i
generic_sign_linear_constraints_second_operand(c, ins, outs) ==
    LET output_size == c.output_bit_size
    IN  ProdSeq([i \in 1 .. output_size |->
                    or_LAT[ins[i] + 1][ins[output_size + i] + 1][outs[i] + 1]])

\* OR.generic_sign_linear_constraints: the product over the output positions of
\* or_LAT[inputs[i]][inputs[input_size // 2 + i]][outputs[i]]
generic_sign_linear_constraints(c, ins, outs) ==
    LET input_size == input_bit_size(c)
        output_size == c.output_bit_size
    IN  ProdSeq([i \in 1 .. output_size |->
                    or_LAT[ins[i] + 1][ins[(input_size \div 2) + i] + 1][outs[i] + 1]])

\* sat_utils.cnf_or_seq: results[0] <=> variables[0] OR variables[1], then
\* results[i] <=> results[i - 1] OR variables[i + 1]
cnf_or_seq(results, variables) ==
    IF Len(results) < 1 \/ Len(variables) < Len(results) + 1
    THEN Err("IndexError")
    ELSE Ok(cnf_or(results[1], <<variables[1], variables[2]>>)
            \o Flat([i \in 1 .. (Len(results) - 1) |->
                      cnf_or(results[i + 1], <<results[i], variables[i + 2]>>)]))

\* list + str: Python's list.__add__ accepts only a list
ListPlusStr(list, str) == Err("TypeError")

\* OR.sat_constraints
OR_sat_constraints(c) ==
    LET input_bit_ids == generate_input_ids(c)
        output_bit_len == c.output_bit_size
        output_bit_ids == generate_output_ids(c)
        number_of_intermediates == NumOperands(c) - 2
        intermediate_ids(i) ==
            [j \in 1 .. number_of_intermediates |->
                "int_" \o Pad3(j - 1) \o "_" \o output_bit_ids[i]]
        bit(i) == LET results == ListPlusStr(intermediate_ids(i), output_bit_ids[i])
                  IN  IF results.raised # "none" THEN results
                      ELSE cnf_or_seq(results.val,
                                      Stride(input_bit_ids, i - 1, output_bit_len))
    IN  Artifact(output_bit_ids, <<>>, ExtendAll([i \in 1 .. output_bit_len |-> bit(i)]))

\* OR.smt_constraints
OR_smt_constraints(c) ==
    LET input_bit_ids == generate_input_ids(c)
        output_bit_len == c.output_bit_size
        output_bit_ids == generate_output_ids(c)
        operands(i) == Stride(input_bit_ids, i - 1, output_bit_len)
    IN  Artifact(output_bit_ids, <<>>,
                 Ok([i \in 1 .. output_bit_len |->
                        smt_assert(smt_equivalent(<<Var(output_bit_ids[i]),
                            smt_or([j \in DOMAIN operands(i) |-> Var(operands(i)[j])])>>))]))

(***************************************************************************)
(* What the constraints mean: the solver's side.                           *)
(***************************************************************************)
\* the number a bit word stands for, index 0 (here 1) most significant
RECURSIVE WordValue(_)
WordValue(bits) ==
    IF bits = <<>> THEN 0 ELSE 2 * WordValue(ButLast(bits)) + Last(bits)

RECURSIVE Pow2(_)
Pow2(n) == IF n = 0 THEN 1 ELSE 2 * Pow2(n - 1)

RECURSIVE SmtVars(_)
SmtVars(e) ==
    IF e.op = "var" THEN {e.name}
    ELSE UNION {SmtVars(e.args[i]) : i \in DOMAIN e.args}

RECURSIVE SmtEval(_, _)
\* the value (0 or 1) of an SMT-LIB boolean expression
SmtEval(e, asg) ==
    LET vals == [i \in DOMAIN e.args |-> SmtEval(e.args[i], asg)]
    IN  CASE e.op = "var" -> asg[e.name]
          [] e.op = "and" -> IF \A i \in DOMAIN vals : vals[i] = 1 THEN 1 ELSE 0
          [] e.op = "or" -> IF \E i \in DOMAIN vals : vals[i] = 1 THEN 1 ELSE 0
          [] e.op = "xor" -> SumSeq(vals) % 2
          [] e.op = "not" -> 1 - vals[1]
          [] e.op = "=" -> IF \A i \in DOMAIN vals : vals[i] = vals[1] THEN 1 ELSE 0
          [] e.op = "distinct" -> IF vals[1] # vals[2] THEN 1 ELSE 0

LitVal(l, asg) == IF l.neg THEN 1 - asg[l.v] ELSE asg[l.v]

\* the MiniZinc name of an array element
ElemName(e) == e.a \o "[" \o ToString(e.i) \o "]"

\* the declaration of an array in a declaration list (the first one), or none
Declared(decls, name) == \E i \in DOMAIN decls : decls[i].name = name
DeclOf(decls, name) ==
    decls[CHOOSE i \in DOMAIN decls :
            decls[i].name = name /\ \A j \in 1 .. (i - 1) : decls[j].name # name]

\* an element of a declared array that lies outside the declared index range
OutOfBounds(decls, e) ==
    Declared(decls, e.a)
        /\ (e.i < DeclOf(decls, e.a).lo \/ e.i > DeclOf(decls, e.a).hi)

\* the elements of a declared array, in index order
ArrayNames(decls, name) ==
    LET d == DeclOf(decls, name)
    IN  [i \in 1 .. (d.hi - d.lo + 1) |-> ElemName(Elem(name, d.lo + i - 1))]

\* a CP constraint with its arrays resolved against the declarations
GroundCp(c, decls) ==
    CASE c.t \in {"cp_eq", "cp_mod2"} ->
            [t |-> "g_mod2", lhs |-> ElemName(c.lhs),
             terms |-> [i \in DOMAIN c.terms |->
                          [j \in DOMAIN c.terms[i] |-> ElemName(c.terms[i][j])]],
             const |-> c.const,
             bad |-> OutOfBounds(decls, c.lhs)
                       \/ \E i \in DOMAIN c.terms : \E j \in DOMAIN c.terms[i] :
                             OutOfBounds(decls, c.terms[i][j])]
      [] c.t \in {"cp_modadd", "cp_or"} ->
            IF Declared(decls, c.a) /\ Declared(decls, c.b) /\ Declared(decls, c.c)
            THEN [t |-> IF c.t = "cp_modadd" THEN "g_modadd" ELSE "g_or",
                  a |-> ArrayNames(decls, c.a), b |-> ArrayNames(decls, c.b),
                  c |-> ArrayNames(decls, c.c), bad |-> FALSE]
            ELSE [t |-> "g_modadd", a |-> <<>>, b |-> <<>>, c |-> <<>>, bad |-> TRUE]

SeqSet(s) == {s[i] : i \in DOMAIN s}

\* the variables a constraint mentions
VarsOf(c) ==
    CASE c.t = "clause" -> {c.lits[i].v : i \in DOMAIN c.lits}
      [] c.t = "xclause" -> {c.lits[i].v : i \in DOMAIN c.lits}
      [] c.t = "assert" -> SmtVars(c.e)
      [] c.t = "poly" -> UNION c.p
      [] c.t = "g_mod2" ->
            IF c.bad THEN {}
            ELSE {c.lhs} \cup UNION {SeqSet(c.terms[i]) : i \in DOMAIN c.terms}
      [] c.t \in {"g_modadd", "g_or"} ->
            IF c.bad THEN {} ELSE SeqSet(c.a) \cup SeqSet(c.b) \cup SeqSet(c.c)

\* whether an assignment of all the variables of a constraint satisfies it
Holds(c, asg) ==
    CASE c.t = "clause" -> \E i \in DOMAIN c.lits : LitVal(c.lits[i], asg) = 1
      [] c.t = "xclause" ->
            SumSeq([i \in DOMAIN c.lits |-> LitVal(c.lits[i], asg)]) % 2 = 1
      [] c.t = "assert" -> SmtEval(c.e, asg) = 1
      [] c.t = "poly" -> Cardinality({m \in c.p : \A x \in m : asg[x] = 1}) % 2 = 0
      [] c.t = "g_mod2" ->
            /\ ~c.bad
            /\ asg[c.lhs] =
                 (SumSeq([i \in DOMAIN c.terms |->
                     ProdSeq([j \in DOMAIN c.terms[i] |-> asg[c.terms[i][j]]])])
                  + c.const) % 2
      [] c.t = "g_modadd" ->
            /\ ~c.bad
            /\ Len(c.a) = Len(c.c) /\ Len(c.b) = Len(c.c)
            /\ WordValue([i \in DOMAIN c.c |-> asg[c.c[i]]]) =
                 (WordValue([i \in DOMAIN c.a |-> asg[c.a[i]]])
                  + WordValue([i \in DOMAIN c.b |-> asg[c.b[i]]])) % Pow2(Len(c.c))
      [] c.t = "g_or" ->
            /\ ~c.bad
            /\ Len(c.a) = Len(c.c) /\ Len(c.b) = Len(c.c)
            /\ \A i \in DOMAIN c.c :
                  asg[c.c[i]] = Max(asg[c.a[i]], asg[c.b[i]])

RECURSIVE Search(_, _, _, _)
\* every extension of asg to the free variables that satisfies the constraints
\* (cvars[i] is VarsOf(cons[i])); a variable that some constraint determines
\* is assigned first
Search(asg, free, cons, cvars) ==
    IF free = {} THEN {asg}
    ELSE LET ready == {i \in DOMAIN cons : Cardinality(cvars[i] \cap free) = 1}
             v == IF ready # {}
                  THEN CHOOSE x \in free : x \in cvars[CHOOSE i \in ready : TRUE]
                  ELSE CHOOSE x \in free : TRUE
             ext(b) == (v :> b) @@ asg
             ok(b) == \A i \in DOMAIN cons :
                          (v \in cvars[i] /\ (cvars[i] \cap free) \subseteq {v})
                              => Holds(cons[i], ext(b))
         IN  UNION { IF ok(b) THEN Search(ext(b), free \ {v}, cons, cvars) ELSE {}
                     : b \in {0, 1} }

\* the assignments of the declared variables, and of those the constraints
\* mention, that satisfy every constraint, the input bits being fixed by given
Solve(ids, cons, given) ==
    LET cvars == [i \in DOMAIN cons |-> VarsOf(cons[i])]
        all == SeqSet(ids) \cup UNION {cvars[i] : i \in DOMAIN cons}
        free == all \ DOMAIN given
    IN  IF \E i \in DOMAIN cons : cvars[i] \cap free = {} /\ ~Holds(cons[i], given)
        THEN {}
        ELSE Search(given, free, cons, cvars)

\* the names under which a back-end refers to the wired input bits
InputNames(c, b) ==
    CASE b = "cp" -> [i \in DOMAIN AllInputs(c) |-> ElemName(AllInputs(c)[i])]
      [] b = "algebraic" -> AlgInputVars(c)
      [] OTHER -> generate_input_ids(c)

\* the names under which a back-end refers to the component's output bits
OutputNames(c, b) ==
    CASE b = "cp" -> [i \in 1 .. c.output_bit_size |-> ElemName(Elem(c.id, i - 1))]
      [] b = "algebraic" -> AlgOutputVars(c)
      [] OTHER -> generate_output_ids(c)

\* the values of the wired input bits, by name
Given(c, b, ins) ==
    LET names == InputNames(c, b)
    IN  [n \in SeqSet(names) |-> ins[CHOOSE i \in DOMAIN names : names[i] = n]]

\* the values that the declarations themselves fix (array1d literals)
Constants(decls) ==
    LET fixed == {i \in DOMAIN decls : decls[i].value # <<>>}
        names == UNION {SeqSet(ArrayNames(decls, decls[i].name)) : i \in fixed}
    IN  [n \in names |->
            LET i == CHOOSE i \in fixed : n \in SeqSet(ArrayNames(decls, decls[i].name))
                j == CHOOSE j \in DOMAIN decls[i].value :
                        ArrayNames(decls, decls[i].name)[j] = n
            IN  decls[i].value[j]]

\* every element of every declared array
DeclaredElems(decls) ==
    Flat([i \in DOMAIN decls |->
            [j \in 1 .. (decls[i].hi - decls[i].lo + 1) |->
                ElemName(Elem(decls[i].name, decls[i].lo + j - 1))]])

\* the solver run on an artifact
SolveArtifact(c, b, a, ins) ==
    IF b = "cp"
    THEN Solve(DeclaredElems(a.declarations),
               [i \in DOMAIN a.constraints |-> GroundCp(a.constraints[i], a.declarations)],
               Given(c, b, ins) @@ Constants(a.declarations))
    ELSE Solve(a.ids, a.constraints, Given(c, b, ins))

(***************************************************************************)
(* The state machine: build a component, call one encoder, solve.          *)
(***************************************************************************)
\* the whole-cipher CP model as its constructor leaves it: the weight counter,
\* the component-to-probability-slot mapping, the arrays already shifted
NewModel ==
    [c |-> 0, component_and_probability |-> <<>>, modadd_twoterms_mant |-> <<>>]

Shapes == {kw \in (2 .. MaxK) \X (1 .. MaxW) : kw[1] * kw[2] <= MaxBits}

\* operand i (1-based) of the component, as a bit word
Operand(c, ins, i) ==
    PySlice(ins, (i - 1) * c.output_bit_size, i * c.output_bit_size)

InitKind(kinds) ==
    /\ \E kind \in kinds : \E kw \in Shapes :
          /\ comp = NewComponent(kind, kw[1], kw[2])
          /\ inputs \in [1 .. (kw[1] * kw[2]) -> {0, 1}]
    /\ backend = "none"
    /\ art = NoArtifact
    /\ solutions = {}
    /\ pc = "built"
    /\ model = NewModel
    /\ history = <<>>
    /\ sign = 0

Call(kind, b, result) ==
    /\ pc = "built"
    /\ comp.kind = kind
    /\ backend' = b
    /\ art' = result
    /\ pc' = IF result.raised = "none" THEN "encoded" ELSE "raised"
    /\ UNCHANGED <<comp, inputs, solutions, model, history, sign>>

ModaddSat == Call("modadd", "sat", MODADD_sat_constraints(comp))
ModaddCms == Call("modadd", "cms", MODADD_cms_constraints(comp))
ModaddSmt == Call("modadd", "smt", MODADD_smt_constraints(comp))
ModaddCp == Call("modadd", "cp", MODADD_cp_constraints(comp))
ModaddAlgebraic == Call("modadd", "algebraic", MODADD_algebraic_polynomials(comp))

ModsubSat == Call("modsub", "sat", MODSUB_sat_constraints(comp))
ModsubCms == Call("modsub", "cms", MODSUB_cms_constraints(comp))
ModsubSmt == Call("modsub", "smt", MODSUB_smt_constraints(comp))
ModsubCp == Call("modsub", "cp", MODSUB_cp_constraints(comp))
OrSat == Call("or", "sat", OR_sat_constraints(comp))
OrSmt == Call("or", "smt", OR_smt_constraints(comp))
OrCp == Call("or", "cp", OR_cp_constraints(comp))
OrAlgebraic == Call("or", "algebraic", OR_algebraic_polynomials(comp))

\* the solver is run on the artifact
SolveStep ==
    /\ pc = "encoded"
    /\ solutions' = SolveArtifact(comp, backend, art, inputs)
    /\ pc' = "solved"
    /\ UNCHANGED <<comp, inputs, backend, art, model, history, sign>>

ModaddNext ==
    ModaddSat \/ ModaddCms \/ ModaddSmt \/ ModaddCp \/ ModaddAlgebraic \/ SolveStep

ModsubNext ==
    ModsubSat \/ ModsubCms \/ ModsubSmt \/ ModsubCp \/ SolveStep

OrNext ==
    OrSat \/ OrSmt \/ OrCp \/ OrAlgebraic \/ SolveStep

Init == InitKind({"modadd", "modsub", "or"})

Next ==
    \/ ModaddSat \/ ModaddCms \/ ModaddSmt \/ ModaddCp \/ ModaddAlgebraic
    \/ ModsubSat \/ ModsubCms \/ ModsubSmt \/ ModsubCp
    \/ OrSat \/ OrSmt \/ OrCp \/ OrAlgebraic
    \/ SolveStep

Spec == Init /\ [][Next]_vars

\* one component kind at a time
SpecModadd == InitKind({"modadd"}) /\ [][ModaddNext]_vars
SpecModsub == InitKind({"modsub"}) /\ [][ModsubNext]_vars
SpecOr == InitKind({"or"}) /\ [][OrNext]_vars

\* the sign of an OR component is asked for input and output values
OrSign ==
    /\ pc = "built"
    /\ comp.kind = "or"
    /\ \E outs \in [1 .. comp.output_bit_size -> {0, 1}] :
          sign' = [outputs |-> outs,
                   value |-> generic_sign_linear_constraints(comp, inputs, outs)]
    /\ pc' = "signed"
    /\ UNCHANGED <<comp, inputs, backend, art, solutions, model, history>>

SpecOrSign == InitKind({"or"}) /\ [][OrSign]_vars

\* components that break the precondition of the encoders: a single operand, or
\* a number of wired bits other than output_bit_size * operand count
Misconfigured ==
    {NewComponent(kind, 1, w) : kind \in {"modadd", "modsub", "or"}, w \in 1 .. MaxW}
    \cup {MiswiredComponent(kwn[1], kwn[2], kwn[3], kwn[4]) :
            kwn \in {x \in {"modadd", "modsub", "or"} \X (2 .. MaxK) \X (1 .. MaxW)
                                \X (0 .. MaxBits) : x[4] # x[2] * x[3]}}

InitMisconfigured ==
    /\ comp \in Misconfigured
    /\ inputs = [i \in 1 .. input_bit_size(comp) |-> 0]
    /\ backend = "none"
    /\ art = NoArtifact
    /\ solutions = {}
    /\ pc = "built"
    /\ model = NewModel
    /\ history = <<>>
    /\ sign = 0

EncoderNext ==
    \/ ModaddSat \/ ModaddCms \/ ModaddSmt \/ ModaddCp \/ ModaddAlgebraic
    \/ ModsubSat \/ ModsubCms \/ ModsubSmt \/ ModsubCp
    \/ OrSat \/ OrSmt \/ OrCp \/ OrAlgebraic

SpecMisconfigured == InitMisconfigured /\ [][EncoderNext]_vars

\* the encoders alone, on well-formed components
SpecEncode == Init /\ [][EncoderNext]_vars

(***************************************************************************)
(* The components of a cipher encoded one after the other against the same *)
(* whole-cipher model, the caller keeping the artifacts.                   *)
(***************************************************************************)
CipherShapes == {kw \in Shapes : kw[1] * kw[2] <= MaxW}

\* a further component of the cipher: its own id, wired to the same upstream
\* bits as c
PeerComponent(kind, index, c) ==
    [NewComponent(kind, NumOperands(c), c.output_bit_size)
        EXCEPT !.id = ComponentId(kind, 0, index)]

InitCipher ==
    /\ \E kind \in {"modadd", "modsub", "or"} : \E kw \in CipherShapes :
          /\ comp = NewComponent(kind, kw[1], kw[2])
          /\ inputs = [i \in 1 .. (kw[1] * kw[2]) |-> 0]
    /\ backend = "none"
    /\ art = NoArtifact
    /\ solutions = {}
    /\ pc = "built"
    /\ model = NewModel
    /\ history = <<>>
    /\ sign = 0

\* a call of an encoder that is handed the model: r.art is returned, r.model left
CallWithModel(kind, b, r) ==
    /\ pc = "built"
    /\ comp.kind = kind
    /\ backend' = b
    /\ art' = r.art
    /\ model' = r.model
    /\ pc' = IF r.art.raised = "none" THEN "encoded" ELSE "raised"
    /\ UNCHANGED <<comp, inputs, solutions, history, sign>>

OrCpXorLinear ==
    CallWithModel("or", "cp_xor_linear",
                  OR_cp_xor_linear_mask_propagation_constraints(comp, model))

\* the caller passes the arrays of two upstream components and of the output,
\* fresh lists and the current weight slot
ModaddCpXorDifferential ==
    \E inp1 \in SeqSet(comp.input_id_links) : \E inp2 \in SeqSet(comp.input_id_links) :
        CallWithModel("modadd", "cp_xor_differential",
            MODADD_cp_twoterms_xor_differential_probability(
                inp1, inp2, comp.id, comp.output_bit_size, CpPair(<<>>, <<>>),
                model.c, model))

\* the caller keeps what the call returned and turns to the next component
NextComponent ==
    /\ pc \in {"encoded", "raised"}
    /\ Len(history) + 1 < MaxComponents
    /\ history' = Append(history, [comp |-> comp, backend |-> backend, art |-> art])
    /\ \E kind \in {"modadd", "modsub", "or"} :
          comp' = PeerComponent(kind, Len(history) + 1, comp)
    /\ backend' = "none"
    /\ art' = NoArtifact
    /\ pc' = "built"
    /\ UNCHANGED <<inputs, solutions, model, sign>>

CipherNext ==
    \/ ModaddSat \/ ModaddCms \/ ModaddSmt \/ ModaddCp \/ ModaddAlgebraic
    \/ ModaddCpXorDifferential
    \/ ModsubSat \/ ModsubCms \/ ModsubSmt \/ ModsubCp
    \/ OrSat \/ OrSmt \/ OrCp \/ OrAlgebraic
    \/ OrCpXorLinear
    \/ NextComponent

SpecCipher == InitCipher /\ [][CipherNext]_vars

(***************************************************************************)
(* Reference values.                                                       *)
(***************************************************************************)
\* the output words of the solutions
OutputWords ==
    {[i \in 1 .. comp.output_bit_size |-> s[OutputNames(comp, backend)[i]]]
        : s \in solutions}

SumOperands ==
    SumSeq([i \in 1 .. NumOperands(comp) |-> WordValue(Operand(comp, inputs, i))])

DiffOperands ==
    WordValue(Operand(comp, inputs, 1))
      - SumSeq([i \in 1 .. (NumOperands(comp) - 1) |->
                   WordValue(Operand(comp, inputs, i + 1))])

OrOperands ==
    [i \in 1 .. comp.output_bit_size |->
        IF \E j \in 1 .. NumOperands(comp) : Operand(comp, inputs, j)[i] = 1 THEN 1 ELSE 0]

\* the output words of the solutions of another artifact of the same component
WordsOf(c, b, a, ins) ==
    {[i \in 1 .. c.output_bit_size |-> s[OutputNames(c, b)[i]]]
        : s \in SolveArtifact(c, b, a, ins)}

Solved(kind) == pc = "solved" /\ comp.kind = kind

\* every solution carries the output word of value n mod 2^w, and there is one
OutputsAre(n) ==
    /\ solutions # {}
    /\ \A o \in OutputWords : WordValue(o) = n % Pow2(comp.output_bit_size)

(***************************************************************************)
(* Properties.                                                             *)
(***************************************************************************)

\* C1: for k >= 2, w >= 2 and every input assignment, the constraints of
\* MODADD.smt_constraints and MODADD.sat_constraints have exactly one satisfying
\* assignment of the carry/intermediate/output variables, and its output bits
\* are (operand_1 + ... + operand_k) mod 2^w.
C1_ModaddUniqueSum ==
    (Solved("modadd") /\ backend \in {"smt", "sat"} /\ comp.output_bit_size >= 2)
        => Cardinality(solutions) = 1 /\ OutputsAre(SumOperands)

\* C2: for k >= 2 (k >= 4 included) and w >= 2 the CP constraints of
\* MODADD.cp_constraints force the output array to the sum of all k operand
\* arrays mod 2^w.
C2_ModaddCpSum ==
    (Solved("modadd") /\ backend = "cp" /\ comp.output_bit_size >= 2)
        => OutputsAre(SumOperands)

\* C3: all MODADD encoders use the same bit ordering (index 0 most significant,
\* carry chain starting at index w-1), so the algebraic polynomials and the SMT
\* assertions accept the same output word for the same input words.
C3_ModaddSameOrdering ==
    (Solved("modadd") /\ backend = "algebraic" /\ comp.output_bit_size >= 2)
        => OutputWords = WordsOf(comp, "smt", MODADD_smt_constraints(comp), inputs)

\* C4: for the 2-operand, 4-bit MODADD with x = 0101 and y = 0011 the CNF
\* clauses, the SMT assertions and the algebraic polynomials each have a unique
\* solution, whose output bits at indices 0..3 are 1000.
C4_ModaddScenario ==
    (Solved("modadd") /\ backend \in {"sat", "smt", "algebraic"}
       /\ NumOperands(comp) = 2 /\ comp.output_bit_size = 4
       /\ inputs = <<0, 1, 0, 1, 0, 0, 1, 1>>)
        => Cardinality(solutions) = 1 /\ OutputWords = {<<1, 0, 0, 0>>}

\* C5: for k = 2 operands a, b of width w >= 2 the constraints of
\* MODSUB.smt_constraints, sat_constraints and cms_constraints force the output
\* bits (index 0 most significant) to (a - b) mod 2^w.
C5_ModsubTwoOperands ==
    (Solved("modsub") /\ backend \in {"smt", "sat", "cms"}
       /\ NumOperands(comp) = 2 /\ comp.output_bit_size >= 2)
        => OutputsAre(DiffOperands)

\* C5 witness: a solved 2-operand subtraction that borrows (a < b), 3 bits wide
C5_Witness ==
    /\ Solved("modsub") /\ backend = "sat"
    /\ NumOperands(comp) = 2 /\ comp.output_bit_size = 3
    /\ DiffOperands < 0
    /\ solutions # {}

\* C6: for k > 2 the SAT, CMS and SMT encodings of MODSUB fold left to right
\* with one two's-complement chain per right-hand operand, so the output is
\* (operand_1 - operand_2 - ... - operand_k) mod 2^w.
C6_ModsubFold ==
    (Solved("modsub") /\ backend \in {"smt", "sat", "cms"}
       /\ NumOperands(comp) > 2 /\ comp.output_bit_size >= 2)
        => OutputsAre(DiffOperands)

\* C7: for every k >= 2, k = 3 in particular, the chain of two-term steps of
\* MODSUB.cp_constraints ends in the component's output array, the output is
\* (operand_1 - ... - operand_k) mod 2^w and is never left unconstrained.
C7_ModsubCpFold ==
    (pc \in {"encoded", "solved"} /\ comp.kind = "modsub" /\ backend = "cp")
        => /\ Len(art.constraints) > 0
           /\ Last(art.constraints).t = "cp_modadd"
           /\ Last(art.constraints).c = comp.id
           /\ pc = "solved" => OutputsAre(DiffOperands)

\* the number of or(...) constraints that read array name as an operand
OrReads(name) ==
    Cardinality({i \in DOMAIN art.constraints :
                    art.constraints[i].t = "cp_or" /\ art.constraints[i].a = name})
    + Cardinality({i \in DOMAIN art.constraints :
                    art.constraints[i].t = "cp_or" /\ art.constraints[i].b = name})

\* C8: for k >= 2 and w >= 1 the constraints of OR.smt_constraints and
\* OR.cp_constraints force output bit i to the OR of bit i of all k operands;
\* the CP encoding is a left fold over temp_<id>_0 .. temp_<id>_{k-3} that reads
\* every operand array and every temp array exactly once.
C8_OrSmtCp ==
    /\ (Solved("or") /\ backend \in {"smt", "cp"})
          => solutions # {} /\ \A o \in OutputWords : o = OrOperands
    /\ (pc \in {"encoded", "solved"} /\ comp.kind = "or" /\ backend = "cp")
          => /\ \A i \in 0 .. (NumOperands(comp) - 1) :
                    OrReads("pre_" \o comp.id \o "_" \o ToString(i)) = 1
             /\ \A i \in 0 .. (NumOperands(comp) - 3) :
                    OrReads("temp_" \o comp.id \o "_" \o ToString(i)) = 1

\* C8 witness: a solved CP encoding of a 4-operand OR whose output word has a 0
\* bit and a 1 bit
C8_Witness ==
    /\ Solved("or") /\ backend = "cp"
    /\ NumOperands(comp) = 4 /\ comp.output_bit_size = 2
    /\ OrOperands = <<0, 1>>
    /\ OutputWords = {<<0, 1>>}

\* C9: for k >= 2 each polynomial of OR.algebraic_polynomials vanishes exactly
\* when y_i is the iterated OR of bit i of the k operands (y_i = 0 when all the
\* operand bits are 0).
C9_OrAlgebraic ==
    (Solved("or") /\ backend = "algebraic")
        => solutions # {} /\ \A o \in OutputWords : o = OrOperands

\* C10: for k >= 2 and w >= 1 OR.sat_constraints returns an artifact without
\* raising, with k-2 intermediate variables per output bit, whose clauses force
\* each output bit to the OR of its k operand bits.
C10_OrSat ==
    (pc # "built" /\ comp.kind = "or" /\ backend = "sat")
        => /\ art.raised = "none"
           /\ pc = "solved" => (solutions # {} /\ \A o \in OutputWords : o = OrOperands)

\* the two-operand encoding of stage n (0-based) of a k-operand MODADD in the
\* back-end b: left operand the result of stage n - 1 (operand 1 for n = 0),
\* right operand the raw operand n + 2, result the ids of stage n
StageEncoding(c, b, n) ==
    LET left == IF n = 0 THEN ModaddInputsIds(c)[1] ELSE ModaddOutputsIds(c)[n]
        right == ModaddInputsIds(c)[n + 2]
        out == ModaddOutputsIds(c)[n + 1]
        carry == ModaddCarriesIds(c)[n + 1]
    IN  CASE b = "sat" -> sat_modadd(out, left, right, carry,
                                     ModaddIntermediatesIds(c)[n + 1]).val
          [] b = "cms" -> cms_modadd(out, left, right, carry).val
          [] b = "smt" -> smt_modadd(out, left, right, carry).val

\* the sum of the first n operands
PartialSum(n) ==
    SumSeq([i \in 1 .. n |-> WordValue(Operand(comp, inputs, i))])

\* C11: for MODADD with k > 2 operands (w >= 2) the SAT, CMS and SMT constraint
\* lists are the concatenation of the k-1 two-operand encodings, stage n >= 1
\* adding operand n+2 to the result of stage n-1 and the last stage writing the
\* output ids; in every solution the result of stage n is the sum of the first
\* n+2 operands mod 2^w, the output the sum of all k.
C11_ModaddChain ==
    (Solved("modadd") /\ backend \in {"sat", "cms", "smt"}
       /\ NumOperands(comp) > 2 /\ comp.output_bit_size >= 2)
        => /\ art.constraints =
                Flat([n \in 1 .. (NumOperands(comp) - 1) |->
                         StageEncoding(comp, backend, n - 1)])
           /\ Last(ModaddOutputsIds(comp)) = generate_output_ids(comp)
           /\ solutions # {}
           /\ \A sol \in solutions : \A n \in 1 .. (NumOperands(comp) - 1) :
                 WordValue([j \in 1 .. comp.output_bit_size |->
                               sol[ModaddOutputsIds(comp)[n][j]]])
                   = PartialSum(n + 1) % Pow2(comp.output_bit_size)

\* C11 witness: a solved SAT encoding of a 4-operand addition that wraps around
C11_Witness ==
    /\ Solved("modadd") /\ backend = "sat"
    /\ NumOperands(comp) = 4 /\ comp.output_bit_size = 2
    /\ SumOperands > 4
    /\ solutions # {}

\* C12: for w = 1 and k = 2 the MODADD encoders sat_constraints,
\* cms_constraints, smt_constraints and cp_constraints do not raise; they return
\* an artifact without carry variables whose single output bit is x XOR y.
C12_WidthOne ==
    (pc # "built" /\ comp.kind = "modadd" /\ backend \in {"sat", "cms", "smt", "cp"}
       /\ NumOperands(comp) = 2 /\ comp.output_bit_size = 1)
        => /\ art.raised = "none"
           /\ \A i \in DOMAIN art.ids : art.ids[i] \notin SeqSet(Flat(ModaddCarriesIds(comp)))
           /\ pc = "solved" => OutputWords = {<<(inputs[1] + inputs[2]) % 2>>}

\* the names an artifact introduces: the variable ids of a SAT, CMS or SMT
\* artifact, the arrays a CP artifact declares, the ring variables of the
\* polynomials other than the component's input variables
AuxNames(c, b, a) ==
    CASE b \in {"sat", "cms", "smt"} -> SeqSet(a.ids)
      [] b = "algebraic" ->
            UNION {VarsOf(a.constraints[i]) : i \in DOMAIN a.constraints}
                \ SeqSet(AlgInputVars(c))
      [] OTHER -> {a.declarations[i].name : i \in DOMAIN a.declarations}

\* C13: two components with different ids (MODADD, MODSUB or OR, any back-end)
\* introduce disjoint sets of auxiliary names, also when both are wired to the
\* same upstream input bits.
C13_DisjointNames ==
    \A i \in DOMAIN history :
        history[i].comp.id # comp.id
            => AuxNames(history[i].comp, history[i].backend, history[i].art)
                 \cap AuxNames(comp, backend, art) = {}

\* C14: OR.generic_sign_linear_constraints returns +1 when all input and output
\* bits are 0, and +1 for a two-operand component whose every position has left
\* input 1, right input 1 and output 1.
C14_OrSign ==
    pc = "signed"
        => /\ ((\A i \in DOMAIN inputs : inputs[i] = 0)
                 /\ (\A i \in DOMAIN sign.outputs : sign.outputs[i] = 0))
                => sign.value = 1
           /\ (NumOperands(comp) = 2
                 /\ (\A i \in DOMAIN inputs : inputs[i] = 1)
                 /\ (\A i \in DOMAIN sign.outputs : sign.outputs[i] = 1))
                => sign.value = 1

\* C14 witness: the sign of a two-operand, 3-bit OR was computed for inputs and
\* outputs all 1
C14_Witness ==
    /\ pc = "signed" /\ NumOperands(comp) = 2 /\ comp.output_bit_size = 3
    /\ \A i \in DOMAIN inputs : inputs[i] = 1
    /\ sign.outputs = <<1, 1, 1>>
    /\ sign.value = 1

\* C15: every MODADD and MODSUB encoder (sat, cms, smt, cp, algebraic) called on
\* a component with one operand fails with an error and returns no artifact.
C15_SingleOperand ==
    (pc # "built" /\ comp.kind \in {"modadd", "modsub"} /\ NumOperands(comp) = 1)
        => art.raised # "none"

\* C16: when the number of wired input bits is not output_bit_size * operand
\* count, the CP encoders of MODADD, MODSUB and OR (which derive the operand
\* length by integer division) report an error instead of returning an artifact
\* built from a truncated operand length.
C16_WiringMismatch ==
    (pc # "built" /\ backend = "cp"
       /\ input_bit_size(comp) # comp.output_bit_size * NumOperands(comp))
        => art.raised # "none"

\* the symbols that occur in the constraints of the artifact
ConstraintSymbols ==
    UNION {VarsOf(art.constraints[i]) : i \in DOMAIN art.constraints}

\* C17: for every SAT, CMS and SMT encoder of MODADD, MODSUB and OR and every
\* k >= 2, each symbol that occurs in a returned constraint and is not one of
\* the component's input bit ids is in the returned variable id list.
C17_SymbolsDeclared ==
    (pc = "encoded" /\ backend \in {"sat", "cms", "smt"})
        => (ConstraintSymbols \ SeqSet(generate_input_ids(comp))) \subseteq SeqSet(art.ids)

\* C17 witness: the SAT artifact of a 3-bit MODSUB, whose clauses mention
\* two's-complement carries, results and intermediates
C17_Witness ==
    /\ pc = "encoded" /\ comp.kind = "modsub" /\ backend = "sat"
    /\ NumOperands(comp) = 2 /\ comp.output_bit_size = 3
    /\ {"twocomp_carry_in1_0", "twocomp_result_in1_2", "intermediate_modsub_0_0_1"}
          \subseteq ConstraintSymbols

\* the artifacts returned so far: those the caller has kept, then the one of the
\* call on the current component
Returned ==
    [i \in DOMAIN history |-> [id |-> history[i].comp.id, backend |-> history[i].backend,
                               art |-> history[i].art]]
    \o (IF pc = "built" THEN <<>>
        ELSE << [id |-> comp.id, backend |-> backend, art |-> art] >>)

\* the calls of OR.cp_xor_linear_mask_propagation_constraints so far
LinearCalls == {i \in DOMAIN Returned : Returned[i].backend = "cp_xor_linear"}

\* the number of 'p[slot] = sum(...)' constraints emitted so far
SumConstraints(slot) ==
    SumSeq([i \in DOMAIN Returned |->
              Cardinality({j \in DOMAIN Returned[i].art.constraints :
                              Returned[i].art.constraints[j] =
                                  CpSum(slot, "p_" \o Returned[i].id)})])

\* C18: a call of OR.cp_xor_linear_mask_propagation_constraints on a model whose
\* counter is n emits the final constraint 'p[n] = sum(p_<id>)', records
\* component_and_probability[<id>] = n and leaves c = n + 1; after any sequence
\* of calls on components with different ids the recorded slots are pairwise
\* different, every slot below c is used by exactly one sum constraint and c is
\* the number of calls (the counter starts at 0).
C18_WeightCounter ==
    /\ (pc = "encoded" /\ backend = "cp_xor_linear")
          => /\ Last(art.constraints) = CpSum(model.c - 1, "p_" \o comp.id)
             /\ model.component_and_probability[comp.id] = model.c - 1
    /\ model.c = Cardinality(LinearCalls)
    /\ DOMAIN model.component_and_probability = {Returned[i].id : i \in LinearCalls}
    /\ \A a, b \in DOMAIN model.component_and_probability :
          a # b => model.component_and_probability[a] # model.component_and_probability[b]
    /\ \A slot \in 0 .. (model.c - 1) : SumConstraints(slot) = 1

\* C18 witness: two OR components were encoded one after the other and hold
\* the slots 0 and 1
C18_Witness ==
    /\ pc = "encoded" /\ backend = "cp_xor_linear"
    /\ Cardinality(LinearCalls) = 2
    /\ model.c = 2
    /\ model.component_and_probability[comp.id] = 1

\* C19: model.c and model.component_and_probability are the only state outside
\* the returned artifact that an encoder of MODADD, MODSUB or OR writes; every
\* encoder other than the linear mask propagation leaves the model and the
\* component unchanged.
C19_OnlyCounterWritten ==
    [][pc = "built"
         => /\ comp' = comp
            /\ model'.modadd_twoterms_mant = model.modadd_twoterms_mant
            /\ (backend' # "cp_xor_linear" => model' = model)]_vars

\* C19 as amended: model.c and model.component_and_probability, written by
\* OR.cp_xor_linear_mask_propagation_constraints, and model.modadd_twoterms_mant,
\* written by MODADD.cp_twoterms_xor_differential_probability, are the only
\* state outside the returned artifact that an encoder writes; every other
\* encoder leaves the model unchanged and none changes the component.
C19_ModelWrites ==
    [][pc = "built"
         => /\ comp' = comp
            /\ (backend' = "cp_xor_linear"
                  => model'.modadd_twoterms_mant = model.modadd_twoterms_mant)
            /\ (backend' = "cp_xor_differential"
                  => /\ model'.c = model.c
                     /\ model'.component_and_probability = model.component_and_probability)
            /\ (backend' \notin {"cp_xor_linear", "cp_xor_differential"}
                  => model' = model)]_vars

\* C19 witness: after a linear mask propagation call on an OR, a differential
\* probability call on a MODADD has recorded its three arrays
C19_Witness ==
    /\ pc = "encoded" /\ backend = "cp_xor_differential"
    /\ model.c = 1
    /\ Len(model.modadd_twoterms_mant) = 3

\* the names of the bits of stage result n (1-based) of a k-operand MODADD in
\* the back-end b, the last stage result being the component's output
StageResultNames(c, b, n) ==
    CASE b = "cp" ->
            [j \in 1 .. c.output_bit_size |->
                ElemName(Elem(IF n = NumOperands(c) - 1 THEN c.id
                              ELSE "pre_" \o c.id \o "_"
                                     \o ToString(NumOperands(c) + n - 1), j - 1))]
      [] b = "algebraic" ->
            IF n = NumOperands(c) - 1 THEN AlgOutputVars(c)
            ELSE [j \in 1 .. c.output_bit_size |->
                    c.id \o "_o" \o ToString(n - 1) \o "_" \o ToString(j - 1)]
      [] OTHER -> ModaddOutputsIds(c)[n]

\* the names of the bits of raw operand i (1-based) in the back-end b
OperandNames(c, b, i) ==
    IF b = "cp"
    THEN [j \in 1 .. c.output_bit_size |->
            ElemName(Elem("pre_" \o c.id \o "_" \o ToString(i - 1), j - 1))]
    ELSE PySlice(InputNames(c, b), (i - 1) * c.output_bit_size, i * c.output_bit_size)

\* the bits at the last index of the raw operands and of the stage results
EndBits(c, b) ==
    {Last(OperandNames(c, b, i)) : i \in 1 .. NumOperands(c)}
    \cup {Last(StageResultNames(c, b, n)) : n \in 1 .. (NumOperands(c) - 1)}

\* the symbols of constraint i of the artifact (a CP constraint resolved against
\* the declarations)
SymbolsOf(i) ==
    IF backend = "cp"
    THEN VarsOf(GroundCp(art.constraints[i], art.declarations))
    ELSE VarsOf(art.constraints[i])

\* the (left, right, result) triples of the stages as the constraints on the
\* last index relate them
StageTriples ==
    {t \in {SymbolsOf(i) \cap EndBits(comp, backend) : i \in DOMAIN art.constraints} :
        Cardinality(t) = 3}

\* the bits at the last index of the raw operands
RawEndBits(c, b) == {Last(OperandNames(c, b, i)) : i \in 1 .. NumOperands(c)}

\* C21: in every MODADD back-end (SAT, CMS, SMT, CP, algebraic) with k > 2
\* operands there are k-1 pairwise stages, the first adds two raw operands and
\* each later stage adds a raw operand not used before to the result of the
\* stage before it, so every raw operand is consumed by exactly one stage and
\* every intermediate stage result by exactly the next stage.
C21_StagesConsumeInOrder ==
    (pc = "encoded" /\ comp.kind = "modadd" /\ NumOperands(comp) > 2
       /\ comp.output_bit_size >= 2)
        => /\ Cardinality(StageTriples) = NumOperands(comp) - 1
           /\ \A x \in RawEndBits(comp, backend) :
                 Cardinality({t \in StageTriples : x \in t}) = 1
           /\ \E t \in StageTriples :
                 /\ Last(StageResultNames(comp, backend, 1)) \in t
                 /\ Cardinality(t \cap RawEndBits(comp, backend)) = 2
           /\ \A n \in 2 .. (NumOperands(comp) - 1) :
                 /\ \E t \in StageTriples :
                       /\ Last(StageResultNames(comp, backend, n)) \in t
                       /\ Last(StageResultNames(comp, backend, n - 1)) \in t
                       /\ Cardinality(t \cap RawEndBits(comp, backend)) = 1
                 /\ Cardinality({t \in StageTriples :
                        Last(StageResultNames(comp, backend, n - 1)) \in t}) = 2

\* the second operand of the component and, in a solution, the words of its
\* two's-complement results and carries
SecondOperand == Operand(comp, inputs, 2)
TwocompResult(sol) ==
    [j \in 1 .. comp.output_bit_size |->
        sol[TwocompResultIds(ModsubInput1Ids(comp))[j]]]
TwocompCarry(sol) ==
    [j \in 1 .. (comp.output_bit_size - 1) |->
        sol[TwocompCarryIds(ModsubInput1Ids(comp))[j]]]

\* C22: in the SAT, CMS and SMT encodings of 2-operand MODSUB with w >= 2 the
\* two's-complement chain over the second operand b forces the twocomp_result
\* bits to (~b + 1) mod 2^w: the least significant result bit is b's, the carry
\* out of the least significant position is the negation of that bit, and each
\* further carry is (NOT b_i) AND the carry of the next less significant
\* position.
C22_TwosComplement ==
    (Solved("modsub") /\ backend \in {"sat", "cms", "smt"}
       /\ NumOperands(comp) = 2 /\ comp.output_bit_size >= 2)
        => /\ solutions # {}
           /\ \A sol \in solutions :
                LET w == comp.output_bit_size
                    b == SecondOperand
                    r == TwocompResult(sol)
                    cy == TwocompCarry(sol)
                IN  /\ WordValue(r) = (Pow2(w) - WordValue(b)) % Pow2(w)
                    /\ WordValue(r) =
                         (WordValue([j \in 1 .. w |-> 1 - b[j]]) + 1) % Pow2(w)
                    /\ r[w] = b[w]
                    /\ cy[w - 1] = 1 - b[w]
                    /\ \A j \in 1 .. (w - 2) : cy[j] = (1 - b[j + 1]) * cy[j + 1]

\* C22 witness: a solved SMT encoding of a 3-bit subtraction of b = 010, whose
\* two's complement is 110
C22_Witness ==
    /\ Solved("modsub") /\ backend = "smt"
    /\ NumOperands(comp) = 2 /\ comp.output_bit_size = 3
    /\ SecondOperand = <<0, 1, 0>>
    /\ \E sol \in solutions : TwocompResult(sol) = <<1, 1, 0>>

\* the n-th id of a flattened list of stages, each of len ids named
\* <prefix><stage:03>_<output id>
StageId(prefix, len, n) ==
    prefix \o Pad3((n - 1) \div len) \o "_"
        \o generate_output_ids(comp)[((n - 1) % len) + 1]
ExpectedCarries ==
    [n \in 1 .. ((NumOperands(comp) - 1) * (comp.output_bit_size - 1)) |->
        StageId("carry_", comp.output_bit_size - 1, n)]
ExpectedIntermediates ==
    [n \in 1 .. ((NumOperands(comp) - 1) * comp.output_bit_size) |->
        StageId("modadd_intermediate_", comp.output_bit_size, n)]
ExpectedStageOutputs ==
    [n \in 1 .. ((NumOperands(comp) - 1) * comp.output_bit_size) |->
        IF n > (NumOperands(comp) - 2) * comp.output_bit_size
        THEN generate_output_ids(comp)[n - (NumOperands(comp) - 2) * comp.output_bit_size]
        ELSE StageId("modadd_output_", comp.output_bit_size, n)]

\* C23: for MODADD with k >= 2 operands of width w >= 2, smt_constraints and
\* cms_constraints return (k-1)*(w-1) carry ids followed by (k-1)*w
\* stage-output ids, the last w of which are the output ids of the component,
\* and no intermediate id; sat_constraints returns the same carries, then
\* (k-1)*w intermediate ids, then the same stage-output ids.
C23_ReturnedIds ==
    (pc = "encoded" /\ comp.kind = "modadd" /\ backend \in {"sat", "cms", "smt"}
       /\ NumOperands(comp) >= 2 /\ comp.output_bit_size >= 2)
        => LET k == NumOperands(comp)
               w == comp.output_bit_size
               nc == (k - 1) * (w - 1)
               ns == (k - 1) * w
           IN  /\ PySlice(art.ids, 0, nc) = ExpectedCarries
               /\ PySlice(art.ids, Len(art.ids) - ns, Len(art.ids)) = ExpectedStageOutputs
               /\ PySlice(art.ids, Len(art.ids) - w, Len(art.ids)) = generate_output_ids(comp)
               /\ backend \in {"cms", "smt"}
                     => /\ Len(art.ids) = nc + ns
                        /\ SeqSet(art.ids) \cap SeqSet(ExpectedIntermediates) = {}
               /\ backend = "sat"
                     => /\ Len(art.ids) = nc + ns + ns
                        /\ PySlice(art.ids, nc, nc + ns) = ExpectedIntermediates

\* C23 witness: the CMS id list of a 3-operand 2-bit MODADD, 2 carries and
\* 4 stage outputs
C23_Witness ==
    /\ pc = "encoded" /\ comp.kind = "modadd" /\ backend = "cms"
    /\ NumOperands(comp) = 3 /\ comp.output_bit_size = 2
    /\ Len(art.ids) = 6

\* C24: OR.cp_xor_linear_mask_propagation_constraints emits exactly w table
\* constraints followed by one sum constraint; the table of bit i links
\* <id>_i[i + w*j] for j = 0 .. k-1, <id>_o[i] and p_<id>[i] to the LAT named
\* and{k}inputs_LAT.
C24_LinearTables ==
    (pc = "encoded" /\ backend = "cp_xor_linear")
        => LET k == NumOperands(comp)
               w == comp.output_bit_size
           IN  /\ Len(art.constraints) = w + 1
               /\ \A i \in 0 .. (w - 1) :
                    LET t == art.constraints[i + 1]
                    IN  /\ t.t = "cp_table"
                        /\ Len(t.elems) = k + 2
                        /\ \A j \in 0 .. (k - 1) :
                              t.elems[j + 1] = Elem(comp.id \o "_i", i + w * j)
                        /\ t.elems[k + 1] = Elem(comp.id \o "_o", i)
                        /\ t.elems[k + 2] = Elem("p_" \o comp.id, i)
                        /\ t.lat = "and" \o ToString(k) \o "inputs_LAT"
               /\ art.constraints[w + 1].t = "cp_sum"
               /\ art.constraints[w + 1].array = "p_" \o comp.id

\* C24 witness: the linear mask propagation of a 2-operand 2-bit OR, two tables
\* and a sum
C24_Witness ==
    /\ pc = "encoded" /\ backend = "cp_xor_linear"
    /\ NumOperands(comp) = 2 /\ comp.output_bit_size = 2
    /\ Len(art.constraints) = 3
    /\ art.constraints[2].elems[2] = Elem(comp.id \o "_i", 3)

\* the left and right input bits of position i (1-based) as the sign reads them
LeftBit(i) == inputs[i]
RightBit(i) == inputs[(input_bit_size(comp) \div 2) + i]
\* positions whose output is 0 while the left or the right input is 1
BlockedPositions ==
    {i \in DOMAIN sign.outputs :
        sign.outputs[i] = 0 /\ (LeftBit(i) = 1 \/ RightBit(i) = 1)}
\* positions with left input 0, right input 0 and output 1
NegativePositions ==
    {i \in DOMAIN sign.outputs :
        sign.outputs[i] = 1 /\ LeftBit(i) = 0 /\ RightBit(i) = 0}

\* C25: OR.generic_sign_linear_constraints returns a value in {-1, 0, +1}; it is
\* 0 exactly when some position has output 0 while its left or right input is
\* 1, and otherwise (-1)^n with n the number of positions with left input 0,
\* right input 0 and output 1, the right input of position i being read at
\* index input_bit_size / 2 + i.
C25_SignValue ==
    pc = "signed"
        => /\ sign.value \in {-1, 0, 1}
           /\ (sign.value = 0) <=> (BlockedPositions # {})
           /\ BlockedPositions = {}
                => sign.value = (IF Cardinality(NegativePositions) % 2 = 0 THEN 1 ELSE -1)

\* C25 witness: the sign of a 3-operand 2-bit OR is -1 for one position with
\* left 0, right (index 3 + i) 0 and output 1, while the bit right after the
\* first operand is 1
C25_Witness ==
    /\ pc = "signed" /\ NumOperands(comp) = 3 /\ comp.output_bit_size = 2
    /\ inputs = <<0, 1, 1, 0, 1, 0>>
    /\ sign.outputs = <<1, 1>>
    /\ sign.value = -1

\* a sequence without two equal entries
NoRepeat(seq) == \A i, j \in DOMAIN seq : seq[i] = seq[j] => i = j
\* the names of the declared arrays, in the order of the declarations
DeclaredNames(a) == [i \in DOMAIN a.declarations |-> a.declarations[i].name]

\* C26: the artifact of a CP encoder (MODADD, MODSUB and OR cp_constraints,
\* k >= 2) declares each array name at most once and holds no constraint twice;
\* in particular MODSUB.cp_constraints with k >= 5 emits the final subtraction
\* step, and its minus_ and pre_minus_ declarations, once.
C26_NoDuplicates ==
    (pc = "encoded" /\ backend = "cp" /\ NumOperands(comp) >= 2)
        => /\ NoRepeat(DeclaredNames(art))
           /\ NoRepeat(art.constraints)

\* C27: within one artifact returned by the SAT, CMS or SMT encoder of MODADD
\* (any k >= 2) or of MODSUB (k = 2, second operand wired to pairwise distinct
\* input bits) the variable ids are pairwise distinct and none of them is an
\* input bit id of the component.
C27_DistinctIds ==
    (/\ pc = "encoded" /\ backend \in {"sat", "cms", "smt"}
     /\ NumOperands(comp) >= 2
     /\ \/ comp.kind = "modadd"
        \/ /\ comp.kind = "modsub" /\ NumOperands(comp) = 2
           /\ NoRepeat(ModsubInput1Ids(comp)))
        => /\ NoRepeat(art.ids)
           /\ SeqSet(art.ids) \cap SeqSet(generate_input_ids(comp)) = {}

\* C27 witness: the SAT artifact of a 2-operand 2-bit MODSUB, with 8 ids (1 and
\* 2 of the two's complement, 1 carry, 2 intermediates, 2 outputs)
C27_Witness ==
    /\ pc = "encoded" /\ backend = "sat" /\ comp.kind = "modsub"
    /\ NumOperands(comp) = 2 /\ comp.output_bit_size = 2
    /\ NoRepeat(ModsubInput1Ids(comp))
    /\ Len(art.ids) = 8

\* the calls of MODADD.cp_twoterms_xor_differential_probability so far
DifferentialCalls ==
    {i \in DOMAIN Returned : Returned[i].backend = "cp_xor_differential"}
\* the names passed as inp1, inp2 or out to those calls
PassedNames ==
    UNION {UNION {{Returned[i].art.constraints[j].a,
                   Returned[i].art.constraints[j].b,
                   Returned[i].art.constraints[j].out} :
                     j \in DOMAIN Returned[i].art.constraints} :
              i \in DifferentialCalls}
\* the number of 'Shi_<name> = LShift(<name>,1)' declarations emitted so far
ShiftDeclarations(name) ==
    SumSeq([i \in DOMAIN Returned |->
              IF i \in DifferentialCalls
              THEN Cardinality({j \in DOMAIN Returned[i].art.declarations :
                                  /\ Returned[i].art.declarations[j].name = "Shi_" \o name
                                  /\ Returned[i].art.declarations[j].def = <<"LShift", name>>})
              ELSE 0])

\* C28: after any sequence of calls of
\* MODADD.cp_twoterms_xor_differential_probability on the same model,
\* model.modadd_twoterms_mant has no duplicate and contains every name passed
\* as inp1, inp2 or out, and the declaration Shi_<name> = LShift(<name>,1) has
\* been emitted exactly once for each such name over the whole sequence, also
\* when inp1 = inp2.
C28_ShiftDeclaredOnce ==
    /\ NoRepeat(model.modadd_twoterms_mant)
    /\ PassedNames \subseteq SeqSet(model.modadd_twoterms_mant)
    /\ \A name \in PassedNames : ShiftDeclarations(name) = 1

\* C28 witness: a call with inp1 = inp2 declared two shifts, and a second call
\* on another component with the same upstream array declared only the shift
\* of its own output
C28_Witness ==
    /\ pc = "encoded" /\ backend = "cp_xor_differential"
    /\ Len(history) = 1 /\ history[1].backend = "cp_xor_differential"
    /\ Len(history[1].art.declarations) = 3
    /\ Len(art.declarations) = 2
    /\ Len(model.modadd_twoterms_mant) = 3
====
